---- MODULE Spec2Model ----
(***************************************************************************)
(* RobustSpeciesService (services/RobustSpeciesService.js): the species    *)
(* resolution engine.  Strings are TLA+ strings read character by          *)
(* character with SubSeq; times are milliseconds (Date.now()); coordinates *)
(* are thousandths of a degree.                                            *)
(***************************************************************************)
EXTENDS Integers, Sequences, FiniteSets, TLC

(***************************************************************************)
(* Characters and strings (the JavaScript String and RegExp primitives     *)
(* the service uses).  The input alphabet is ASCII.                        *)
(***************************************************************************)
Ch(s, i) == SubSeq(s, i, i)

Digits == {"0", "1", "2", "3", "4", "5", "6", "7", "8", "9"}

LowerLetters == "abcdefghijklmnopqrstuvwxyz"

UpperLetters == "ABCDEFGHIJKLMNOPQRSTUVWXYZ"

LowerSet == {Ch(LowerLetters, i) : i \in 1..26}

UpperSet == {Ch(UpperLetters, i) : i \in 1..26}

WordChars == LowerSet \cup UpperSet \cup Digits \cup {"_"}

\* String.prototype.toLowerCase and toUpperCase, for one character
LowerOf == [c \in UpperSet |-> Ch(LowerLetters, CHOOSE i \in 1..26 : Ch(UpperLetters, i) = c)]

UpperOf == [c \in LowerSet |-> Ch(UpperLetters, CHOOSE i \in 1..26 : Ch(LowerLetters, i) = c)]

IsDigit(c) == c \in Digits

IsLetter(c) == c \in LowerSet \/ c \in UpperSet

\* \s of a JavaScript regular expression, over the input alphabet
IsSpace(c) == c \in {" ", "\t"}

\* \w of a JavaScript regular expression
IsWordChar(c) == c \in WordChars

LowerCh(c) == IF c \in UpperSet THEN LowerOf[c] ELSE c

UpperCh(c) == IF c \in LowerSet THEN UpperOf[c] ELSE c

RECURSIVE FlatFrom(_, _)
FlatFrom(q, i) == IF i > Len(q) THEN "" ELSE q[i] \o FlatFrom(q, i + 1)

\* the concatenation of a sequence of strings
Flat(q) == FlatFrom(q, 1)

toLowerCase(s) == Flat([i \in 1..Len(s) |-> LowerCh(Ch(s, i))])

toUpperCase(s) == Flat([i \in 1..Len(s) |-> UpperCh(Ch(s, i))])

RECURSIVE TrimStart(_)
TrimStart(s) == IF Len(s) > 0 /\ IsSpace(Head(s)) THEN TrimStart(Tail(s)) ELSE s

RECURSIVE TrimEnd(_)
TrimEnd(s) ==
  IF Len(s) > 0 /\ IsSpace(Ch(s, Len(s))) THEN TrimEnd(SubSeq(s, 1, Len(s) - 1)) ELSE s

\* String.prototype.trim
trim(s) == TrimEnd(TrimStart(s))

\* s.replace(/\s+/g, ' ')
CollapseWs(s) ==
  Flat([i \in 1..Len(s) |->
         IF IsSpace(Ch(s, i))
         THEN (IF i > 1 /\ IsSpace(Ch(s, i - 1)) THEN "" ELSE " ")
         ELSE Ch(s, i)])

\* s.includes(t)
includes(s, t) ==
  \E i \in 1..(Len(s) - Len(t) + 1) : SubSeq(s, i, i + Len(t) - 1) = t

\* s.startsWith(t)
startsWith(s, t) == Len(s) >= Len(t) /\ SubSeq(s, 1, Len(t)) = t

\* s.endsWith(t)
endsWith(s, t) == Len(s) >= Len(t) /\ SubSeq(s, Len(s) - Len(t) + 1, Len(s)) = t

RECURSIVE SplitFrom(_, _, _)
SplitFrom(s, i, cur) ==
  IF i > Len(s) THEN <<cur>>
  ELSE IF Ch(s, i) = " " THEN <<cur>> \o SplitFrom(s, i + 1, "")
  ELSE SplitFrom(s, i + 1, cur \o Ch(s, i))

\* s.split(' ')
split(s) == SplitFrom(s, 1, "")

\* parts.filter(Boolean)
filterBoolean(parts) == SelectSeq(parts, LAMBDA w : w # "")

RECURSIVE JoinFrom(_, _)
JoinFrom(parts, i) ==
  IF i > Len(parts) THEN ""
  ELSE IF i = Len(parts) THEN parts[i]
  ELSE parts[i] \o " " \o JoinFrom(parts, i + 1)

\* parts.join(' ')
join(parts) == JoinFrom(parts, 1)

\* the position of the first ')' after position i, 0 when there is none
CloseParen(s, i) ==
  LET js == {j \in (i + 1)..Len(s) : Ch(s, j) = ")"}
  IN  IF js = {} THEN 0 ELSE CHOOSE j \in js : \A k \in js : j <= k

RECURSIVE RemoveParensFrom(_, _)
RemoveParensFrom(s, i) ==
  IF i > Len(s) THEN ""
  ELSE IF Ch(s, i) = "(" /\ CloseParen(s, i) > 0
       THEN RemoveParensFrom(s, CloseParen(s, i) + 1)
       ELSE Ch(s, i) \o RemoveParensFrom(s, i + 1)

\* s.replace(/\([^)]*\)/g, '')
RemoveParens(s) == RemoveParensFrom(s, 1)

\* the length of the run of digits that starts at position k
DigitRun(s, k) ==
  LET stops == {j \in k..(Len(s) + 1) : j > Len(s) \/ ~IsDigit(Ch(s, j))}
  IN  (CHOOSE j \in stops : \A m \in stops : j <= m) - k

\* the first position >= j that holds a digit or a comma, Len(s)+1 when none
NextDigitOrComma(s, j) ==
  LET stops == {k \in j..(Len(s) + 1) : k > Len(s) \/ IsDigit(Ch(s, k)) \/ Ch(s, k) = ","}
  IN  CHOOSE k \in stops : \A m \in stops : k <= m

\* the first position >= j that holds no whitespace, Len(s)+1 when none
SkipSpaces(s, j) ==
  LET stops == {k \in j..(Len(s) + 1) : k > Len(s) \/ ~IsSpace(Ch(s, k))}
  IN  CHOOSE k \in stops : \A m \in stops : k <= m

\* \d{3,4}\b at position k, where a run of n digits starts: the position after the
\* match, 0 for no match
CitationYear(s, k, n) ==
  IF n \in {3, 4} /\ (k + n > Len(s) \/ ~IsWordChar(Ch(s, k + n))) THEN k + n ELSE 0

\* the same, k being where [^,\d]* has stopped
CitationDigits(s, k) ==
  CitationYear(s, k, IF k <= Len(s) /\ IsDigit(Ch(s, k)) THEN DigitRun(s, k) ELSE 0)

\* /,?\s*[^,\d]*\d{3,4}\b/ tried at position i: the position after the match, 0 for no match
CitationEnd(s, i) ==
  CitationDigits(s, NextDigitOrComma(s, IF Ch(s, i) = "," THEN i + 1 ELSE i))

RECURSIVE RemoveCitationsFrom(_, _)
RemoveCitationsFrom(s, i) ==
  IF i > Len(s) THEN ""
  ELSE IF CitationEnd(s, i) > 0 THEN RemoveCitationsFrom(s, CitationEnd(s, i))
  ELSE Ch(s, i) \o RemoveCitationsFrom(s, i + 1)

\* s.replace(/,?\s*[^,\d]*\d{3,4}\b/g, '')
RemoveCitations(s) == RemoveCitationsFrom(s, 1)

\* \d{3,4} at position k, where a run of n digits starts: the position after the
\* match, 0 for no match
YearAt(k, n) == IF n >= 3 THEN k + (IF n >= 4 THEN 4 ELSE 3) ELSE 0

YearDigits(s, k) == YearAt(k, IF k <= Len(s) THEN DigitRun(s, k) ELSE 0)

\* /,?\s*\d{3,4}/ tried at position i: the position after the match, 0 for no match
YearEnd(s, i) == YearDigits(s, SkipSpaces(s, IF Ch(s, i) = "," THEN i + 1 ELSE i))

RECURSIVE RemoveYearsFrom(_, _)
RemoveYearsFrom(s, i) ==
  IF i > Len(s) THEN ""
  ELSE IF YearEnd(s, i) > 0 THEN RemoveYearsFrom(s, YearEnd(s, i))
  ELSE Ch(s, i) \o RemoveYearsFrom(s, i + 1)

\* s.replace(/,?\s*\d{3,4}/g, '')
RemoveYears(s) == RemoveYearsFrom(s, 1)

\* the position after the word (maximal run of \w) that starts at position i
WordEnd(s, i) ==
  LET stops == {j \in i..(Len(s) + 1) : j > Len(s) \/ ~IsWordChar(Ch(s, j))}
  IN  CHOOSE j \in stops : \A m \in stops : j <= m

\* \b holds before position i and position i starts a word
WordStart(s, i) ==
  i <= Len(s) /\ IsWordChar(Ch(s, i)) /\ (i = 1 \/ ~IsWordChar(Ch(s, i - 1)))

\* the words (maximal runs of \w) of s, lower-cased
WordsOf(s) ==
  {toLowerCase(SubSeq(s, i, WordEnd(s, i) - 1)) : i \in {k \in 1..Len(s) : WordStart(s, k)}}

ShorthandTokens == {"sp", "spp", "cf", "aff", "var", "subsp", "form", "forma"}

\* the position after the optional '.' at position e
AfterDot(s, e) == IF e <= Len(s) /\ Ch(s, e) = "." THEN e + 1 ELSE e

RECURSIVE RemoveShorthandFrom(_, _)
RemoveShorthandFrom(s, i) ==
  IF i > Len(s) THEN ""
  ELSE IF WordStart(s, i) /\ toLowerCase(SubSeq(s, i, WordEnd(s, i) - 1)) \in ShorthandTokens
       THEN RemoveShorthandFrom(s, AfterDot(s, WordEnd(s, i)))
       ELSE Ch(s, i) \o RemoveShorthandFrom(s, i + 1)

\* s.replace(/\b(sp|spp|cf|aff|var|subsp|forma?)\b\.?/gi, '')
RemoveShorthand(s) == RemoveShorthandFrom(s, 1)

\* s.replace(/[\d]/g, '')
RemoveDigits(s) == Flat([i \in 1..Len(s) |-> IF IsDigit(Ch(s, i)) THEN "" ELSE Ch(s, i)])

\* s.replace(/[^\w\s'\-\.]/g, '')
RemovePunctuation(s) ==
  Flat([i \in 1..Len(s) |->
         IF IsWordChar(Ch(s, i)) \/ IsSpace(Ch(s, i)) \/ Ch(s, i) \in {"'", "-", "."}
         THEN Ch(s, i) ELSE ""])

RECURSIVE StripTail(_)
StripTail(s) ==
  IF Len(s) > 0 /\ (IsSpace(Ch(s, Len(s))) \/ Ch(s, Len(s)) \in {",", "-", "."})
  THEN StripTail(SubSeq(s, 1, Len(s) - 1)) ELSE s

(***************************************************************************)
(* The name normalizer                                                     *)
(***************************************************************************)
\* if (cleaned.length < 2) return ''
AtLeastTwo(cleaned) == IF Len(cleaned) < 2 THEN "" ELSE cleaned

sanitizeDisplayName(name) ==
  IF name = "" THEN ""
  ELSE AtLeastTwo(
         trim(CollapseWs(StripTail(
           RemovePunctuation(RemoveDigits(
             RemoveShorthand(
               RemoveCitations(RemoveParens(
                 trim(CollapseWs(name)))))))))))

PlaceholderTokens == {"sp", "spp", "species", "unidentified", "unknown", "indet", "gen"}

\* the tests of isValidCommonName on the trimmed name
ValidTrimmed(s) ==
  /\ Len(s) >= 3
  /\ \A i \in 1..Len(s) : ~IsDigit(Ch(s, i))
  /\ WordsOf(s) \cap PlaceholderTokens = {}

isValidCommonName(name) == name # "" /\ ValidTrimmed(trim(name))

\* parts.length >= 2 ? `${parts[0]} ${parts[1]}` : ''
FirstTwo(parts) == IF Len(parts) >= 2 THEN parts[1] \o " " \o parts[2] ELSE ""

extractBinomial(scientific) ==
  IF scientific = "" THEN ""
  ELSE FirstTwo(filterBoolean(split(trim(CollapseWs(RemoveYears(RemoveParens(scientific)))))))

\* singularize, on the lower-cased name
SingularOf(lower) ==
  IF lower = "fish" THEN "fish"
  ELSE IF endsWith(lower, "s") THEN SubSeq(lower, 1, Len(lower) - 1)
  ELSE lower

singularize(className) == IF className = "" THEN className ELSE SingularOf(toLowerCase(className))

\* word.charAt(0).toUpperCase() + word.slice(1).toLowerCase()
CapWord(word) ==
  IF word = "" THEN "" ELSE UpperCh(Head(word)) \o toLowerCase(Tail(word))

CapWords(parts) == [i \in 1..Len(parts) |-> CapWord(parts[i])]

capitalizeWords(str) == join(CapWords(split(str)))

\* "Genus species" of the parts of a scientific name
GenusSpecies(parts, scientific) ==
  IF Len(parts) >= 2 THEN CapWord(parts[1]) \o " " \o toLowerCase(parts[2])
  ELSE CapWord(scientific)

formatDisplayForUI(name, scientific) ==
  IF isValidCommonName(name) THEN capitalizeWords(name)
  ELSE IF scientific # ""
       THEN GenusSpecies(filterBoolean(split(scientific)), scientific)
  ELSE IF Len(name) > 0 THEN capitalizeWords(name)
  ELSE "Unknown Species"

\* the name.includes(...) chain and the switch of inferHabitat, name being lower-cased
HabitatOf(name, animalType) ==
      IF \E w \in {"fish", "salmon", "trout", "frog", "turtle", "duck"} : includes(name, w)
      THEN "aquatic"
      ELSE IF \E w \in {"wood", "tree", "forest"} : includes(name, w) THEN "forest"
      ELSE IF \E w \in {"house", "city", "urban"} : includes(name, w) THEN "urban"
      ELSE CASE animalType = "birds" -> "woodland"
             [] animalType = "mammals" -> "terrestrial"
             [] animalType = "fish" -> "freshwater"
             [] animalType = "reptiles" -> "terrestrial"
             [] animalType = "amphibians" -> "wetland"
             [] animalType = "insects" -> "terrestrial"
             [] OTHER -> "terrestrial"

inferHabitat(speciesName, animalType) == HabitatOf(toLowerCase(speciesName), animalType)

(***************************************************************************)
(* The static tables of the constructor                                    *)
(***************************************************************************)
taxonomicClasses ==
  << [name |-> "birds", key |-> 212, displayName |-> "Birds"],
     [name |-> "mammals", key |-> 359, displayName |-> "Mammals"],
     [name |-> "fish", key |-> 204, displayName |-> "Fish"],
     [name |-> "reptiles", key |-> 358, displayName |-> "Reptiles"],
     [name |-> "amphibians", key |-> 131, displayName |-> "Amphibians"] >>

ClassNames == {taxonomicClasses[i].name : i \in 1..Len(taxonomicClasses)}

maxCacheSize == 200

globalFallbacks(animalType) ==
  CASE animalType = "birds" ->
         <<"House Sparrow", "Rock Dove", "European Starling", "House Finch", "American Robin">>
    [] animalType = "mammals" ->
         <<"House Mouse", "Brown Rat", "Domestic Cat", "Domestic Dog", "White-tailed Deer">>
    [] animalType = "fish" -> <<"Goldfish", "Carp", "Bass", "Trout", "Catfish">>
    [] animalType = "reptiles" ->
         <<"House Gecko", "Green Anole", "Garter Snake", "Box Turtle", "Fence Lizard">>
    [] animalType = "amphibians" ->
         <<"American Bullfrog", "Green Frog", "Spring Peeper", "Red-eared Slider", "Wood Frog">>
    [] OTHER -> <<>>

\* this.scientificToCommon[scientific], "" for undefined
scientificToCommon(scientific) ==
  CASE scientific = "Passer domesticus" -> "House Sparrow"
    [] scientific = "Columba livia" -> "Rock Dove"
    [] scientific = "Sturnus vulgaris" -> "European Starling"
    [] scientific = "Haemorhous mexicanus" -> "House Finch"
    [] scientific = "Turdus migratorius" -> "American Robin"
    [] scientific = "Corvus brachyrhynchos" -> "American Crow"
    [] scientific = "Poecile atricapillus" -> "Black-capped Chickadee"
    [] scientific = "Sitta carolinensis" -> "White-breasted Nuthatch"
    [] scientific = "Falco sparverius" -> "American Kestrel"
    [] scientific = "Buteo jamaicensis" -> "Red-tailed Hawk"
    [] scientific = "Mus musculus" -> "House Mouse"
    [] scientific = "Rattus norvegicus" -> "Brown Rat"
    [] scientific = "Felis catus" -> "Domestic Cat"
    [] scientific = "Canis lupus" -> "Gray Wolf"
    [] scientific = "Odocoileus virginianus" -> "White-tailed Deer"
    [] scientific = "Procyon lotor" -> "Raccoon"
    [] scientific = "Sciurus carolinensis" -> "Eastern Gray Squirrel"
    [] scientific = "Tamias striatus" -> "Eastern Chipmunk"
    [] scientific = "Anolis carolinensis" -> "Green Anole"
    [] scientific = "Sceloporus undulatus" -> "Fence Lizard"
    [] scientific = "Thamnophis sirtalis" -> "Garter Snake"
    [] scientific = "Terrapene carolina" -> "Box Turtle"
    [] scientific = "Lithobates catesbeianus" -> "American Bullfrog"
    [] scientific = "Lithobates clamitans" -> "Green Frog"
    [] scientific = "Pseudacris crucifer" -> "Spring Peeper"
    [] scientific = "Anaxyrus americanus" -> "American Toad"
    [] scientific = "Carassius auratus" -> "Goldfish"
    [] scientific = "Cyprinus carpio" -> "Common Carp"
    [] scientific = "Micropterus salmoides" -> "Largemouth Bass"
    [] scientific = "Salmo trutta" -> "Brown Trout"
    [] OTHER -> ""

\* this.regionalFallbacks[region][animalType], <<>> for undefined
regionalFallbacks(region, animalType) ==
  CASE region = "california" /\ animalType = "birds" ->
         <<"Anna's Hummingbird", "California Scrub-Jay", "Western Bluebird", "Red-tailed Hawk">>
    [] region = "california" /\ animalType = "mammals" ->
         <<"California Ground Squirrel", "Coyote", "Mule Deer", "Bobcat">>
    [] region = "california" /\ animalType = "reptiles" ->
         <<"Western Fence Lizard", "Alligator Lizard", "Gopher Snake", "Rattlesnake">>
    [] region = "pacific_northwest" /\ animalType = "birds" ->
         <<"Steller's Jay", "Dark-eyed Junco", "Pacific Wren", "Varied Thrush">>
    [] region = "pacific_northwest" /\ animalType = "mammals" ->
         <<"Douglas Squirrel", "Black Bear", "Elk", "Raccoon">>
    [] region = "pacific_northwest" /\ animalType = "fish" ->
         <<"Chinook Salmon", "Coho Salmon", "Steelhead Trout", "Pacific Cod">>
    [] region = "eastern_forests" /\ animalType = "birds" ->
         <<"Blue Jay", "Cardinal", "Wood Thrush", "Pileated Woodpecker">>
    [] region = "eastern_forests" /\ animalType = "mammals" ->
         <<"Eastern Gray Squirrel", "White-tailed Deer", "Black Bear", "Raccoon">>
    [] region = "eastern_forests" /\ animalType = "amphibians" ->
         <<"Wood Frog", "Spring Peeper", "Red-backed Salamander", "American Toad">>
    [] OTHER -> <<>>

(***************************************************************************)
(* Static fallback tiers.  A candidate is a record; lastUsed = 0 stands    *)
(* for a candidate that carries no lastUsed field yet.                     *)
(***************************************************************************)
\* a || b || c on strings
OrElse3(a, b, c) == IF a # "" THEN a ELSE IF b # "" THEN b ELSE c

\* the boxes of getEcoregionFromCoordinates in the order of its tests, in thousandths
\* of a degree: latitude from and to, longitude from and to, name, code, state
EcoregionBoxes ==
  << <<40500, 49500, -124700, -121500, "Marine West Coast Forest", "1", "Washington">>,
     <<40000, 49000, -123000, -120000, "Cascades", "9", "Oregon">>,
     <<35500, 40000, -121000, -118500, "Sierra Nevada", "5", "California">>,
     <<34000, 38500, -123000, -119000, "Central California Foothills", "6", "California">>,
     <<35000, 40000, -122000, -119000, "Central California Valley", "7", "California">>,
     <<32500, 35500, -119000, -116000, "Southern California Mountains", "8", "California">>,
     <<33500, 38000, -118000, -114000, "Mojave Basin and Range", "14", "California">>,
     <<36000, 49000, -104000, -96000, "Great Plains", "92", "Nebraska">>,
     <<40000, 43500, -96000, -90000, "Western Corn Belt Plains", "93", "Iowa">>,
     <<28500, 33500, -97500, -95500, "Texas Blackland Prairies", "94", "Texas">>,
     <<30000, 35000, -98000, -92000, "South Central Plains", "95", "Texas">>,
     <<30000, 37000, -92000, -82000, "Southeastern Plains", "96", "Virginia">>,
     <<35000, 40500, -80000, -74000, "Middle Atlantic Coastal Plain", "97", "Virginia">>,
     <<43500, 47500, -71000, -67000, "Northern Appalachian/Boreal Forest", "98", "Maine">>,
     <<40000, 45000, -80000, -73000, "Mixed Wood Plains", "99", "New York">>,
     <<25800, 36500, -106600, -93500, "Texas", "TX", "Texas">>,
     <<32500, 42000, -124500, -114000, "California", "CA", "California">> >>

InBox(b, latitude, longitude) ==
  latitude >= b[1] /\ latitude <= b[2] /\ longitude >= b[3] /\ longitude <= b[4]

\* the box of the last test that succeeds
LastBox(hits) == IF hits = {} THEN <<>> ELSE EcoregionBoxes[CHOOSE i \in hits : \A j \in hits : i >= j]

\* the box of the first test that succeeds, <<>> when none does
FirstBox(hits) == IF hits = {} THEN <<>> ELSE EcoregionBoxes[CHOOSE i \in hits : \A j \in hits : i <= j]

EcoregionOf(b) ==
  IF b = <<>> THEN [name |-> "Unknown", code |-> "00", state |-> ""]
  ELSE [name |-> b[5], code |-> b[6], state |-> b[7]]

getEcoregionFromCoordinates(latitude, longitude) ==
  EcoregionOf(FirstBox({i \in 1..Len(EcoregionBoxes) : InBox(EcoregionBoxes[i], latitude, longitude)}))

\* the region test of getRegionalFallback, coordinates in thousandths of a degree
RegionOf(latitude, longitude) ==
  IF latitude >= 32000 /\ latitude <= 42000 /\ longitude >= -125000 /\ longitude <= -114000
  THEN "california"
  ELSE IF latitude >= 42000 /\ latitude <= 49000 /\ longitude >= -125000 /\ longitude <= -116000
  THEN "pacific_northwest"
  ELSE IF latitude >= 25000 /\ latitude <= 47000 /\ longitude >= -100000 /\ longitude <= -66000
  THEN "eastern_forests"
  ELSE "default"

\* the candidate that the static tiers make of a table entry
StaticCandidate(name, animalType, source) ==
  [name |-> capitalizeWords(OrElse3(sanitizeDisplayName(name), extractBinomial(name), name)),
   scientificName |-> extractBinomial(name),
   type |-> singularize(animalType),
   habitat |-> inferHabitat(name, animalType),
   source |-> source,
   lastUsed |-> 0]

StaticCandidates(names, animalType, source) ==
  [i \in 1..Len(names) |-> StaticCandidate(names[i], animalType, source)]

RegionalCandidates(region, animalType) ==
  StaticCandidates(regionalFallbacks(region, animalType), animalType, "regional-" \o region)

getRegionalFallback(latitude, longitude, animalType) ==
  RegionalCandidates(RegionOf(latitude, longitude), animalType)

\* this.globalFallbacks[animalType] || this.globalFallbacks.birds
GlobalNames(animalType) ==
  IF globalFallbacks(animalType) # <<>> THEN globalFallbacks(animalType)
  ELSE globalFallbacks("birds")

\* a global tier that has no entry for the class
EmptyGlobalFallback(animalType) == <<>>

getGlobalFallback(animalType) ==
  StaticCandidates(GlobalNames(animalType), animalType, "global-fallback")

getFallbackSpecies == [name |-> "Anna's Hummingbird", scientificName |-> "Calypte anna", type |-> "bird"]

(***************************************************************************)
(* The location-clustered cache: a JavaScript Map, modelled as the         *)
(* sequence of its <<key, value>> pairs in insertion order.                *)
(***************************************************************************)
\* Math.floor(x * 100) for x in thousandths of a degree
FloorHundredths(x) == x \div 10

\* Math.round(x * 100) for x in thousandths of a degree (round half up)
RoundHundredths(x) == (x + 5) \div 10

\* the key `${roundedLat}_${roundedLng}_${taxonomicClass.name}`
generateLocationKey(latitude, longitude, className) ==
  <<RoundHundredths(latitude), RoundHundredths(longitude), className>>

\* the position of key k in the map, 0 when absent
MapIndex(m, k) ==
  LET hits == {i \in 1..Len(m) : m[i][1] = k}
  IN  IF hits = {} THEN 0 ELSE CHOOSE i \in hits : TRUE

MapHas(m, k) == MapIndex(m, k) > 0

MapGet(m, k) == m[MapIndex(m, k)][2]

\* a map in which a key that is set again goes last
MovesToEnd(m, k, v) == Append(SelectSeq(m, LAMBDA e : e[1] # k), <<k, v>>)

\* Map.prototype.set: an existing key keeps its place, a new key goes last
MapSet(m, k, v) ==
  IF MapHas(m, k) THEN [m EXCEPT ![MapIndex(m, k)] = <<k, v>>] ELSE Append(m, <<k, v>>)

\* Map.prototype.delete
MapDelete(m, k) == SelectSeq(m, LAMBDA e : e[1] # k)

\* Array.from(cache.keys()).filter(key => key.endsWith(`_${name}`))
ClassKeys(m, className) ==
  LET es == SelectSeq(m, LAMBDA e : e[1][3] = className)
  IN  [i \in 1..Len(es) |-> es[i][1]]

\* the species.map(...) of cacheSpecies, for one candidate
\* a || b on strings
OrElse(a, b) == IF a # "" THEN a ELSE b

\* isValidCommonName(cleaned) ? cleaned : (bin || cleaned)
ValidOrBinomial(cleaned, bin) == IF isValidCommonName(cleaned) THEN cleaned ELSE OrElse(bin, cleaned)

\* the stored candidate, given the binomial of its scientific name
NormalizeWith(s, className, bin) ==
  [s EXCEPT !.name = OrElse(capitalizeWords(ValidOrBinomial(sanitizeDisplayName(s.name), bin)),
                            s.name),
            !.scientificName = OrElse(bin, s.scientificName),
            !.type = IF s.type # "" THEN singularize(s.type) ELSE singularize(className)]

NormalizeCandidate(s, className) == NormalizeWith(s, className, extractBinomial(s.scientificName))

\* s.source && String(s.source).toLowerCase().startsWith('gbif')
IsGbifSource(source) == startsWith(toLowerCase(source), "gbif")

\* getCachedEntry: <<>> for null, <<entry>> otherwise
getCachedEntry(m, latitude, longitude, className) ==
  LET k == generateLocationKey(latitude, longitude, className)
  IN  IF MapHas(m, k) THEN <<MapGet(m, k)>> ELSE <<>>

(***************************************************************************)
(* The upstream (GBIF) as the service sees it.  A response is              *)
(*   status     the HTTP status, 0 when fetch() or text() throws           *)
(*              (network error, timeout)                                   *)
(*   json       the content-type header includes "application/json"        *)
(*   body       "html" (starts with '<'), "text" (does not parse as JSON), *)
(*              "null" (parses to null), "empty" (an object without        *)
(*              results) or "results" (an object with a results array)     *)
(*   payload    the results array, an index into Payloads                  *)
(*   retryAfter the retry-after header: <<>> when absent, <<d>> for the    *)
(*              decimal number d of seconds                                *)
(***************************************************************************)
RawRecord(key, scientificName, vernacularNames) ==
  [key |-> key, scientificName |-> scientificName, canonicalName |-> "",
   vernacularNames |-> vernacularNames, vernacularName |-> "", commonName |-> ""]

Vern(vernacularName, language) == [vernacularName |-> vernacularName, language |-> language]

\* the results arrays the modelled upstream can send
Payloads ==
  << \* a record with an English vernacular name, and one without a scientific name
     << RawRecord(2490719, "Turdus migratorius Linnaeus, 1766", <<Vern("American Robin", "eng")>>),
        RawRecord(0, "", <<Vern("Mallard", "eng")>>) >>,
     \* a record that needs the vernacular endpoint, and one the curated mapping names
     << RawRecord(5231190, "Corvus corax Linnaeus, 1758", <<>>),
        RawRecord(0, "Passer domesticus (Linnaeus, 1758)", <<>>) >>,
     \* a record without any usable name, and a duplicate of a vernacular name
     << RawRecord(0, "Aves", <<Vern("sp.", "eng")>>),
        RawRecord(2490719, "Turdus migratorius", <<Vern("Merle", "fra"), Vern("american robin", "en")>>),
        RawRecord(9999, "Turdus migratorius Linnaeus, 1766", <<Vern("American Robin", "eng")>>) >>,
     \* eight species, each with an English vernacular name
     << RawRecord(0, "Cardinalis cardinalis (Linnaeus, 1758)", <<Vern("Northern Cardinal", "eng")>>),
        RawRecord(0, "Cyanocitta cristata (Linnaeus, 1758)", <<Vern("Blue Jay", "eng")>>),
        RawRecord(0, "Zenaida macroura (Linnaeus, 1758)", <<Vern("Mourning Dove", "eng")>>),
        RawRecord(0, "Hirundo rustica Linnaeus, 1758", <<Vern("Barn Swallow", "eng")>>),
        RawRecord(0, "Ardea herodias Linnaeus, 1758", <<Vern("Great Blue Heron", "eng")>>),
        RawRecord(0, "Buteo jamaicensis (Gmelin, 1788)", <<Vern("Red-tailed Hawk", "eng")>>),
        RawRecord(0, "Branta canadensis (Linnaeus, 1758)", <<Vern("Canada Goose", "eng")>>),
        RawRecord(0, "Dryobates pubescens (Linnaeus, 1766)", <<Vern("Downy Woodpecker", "eng")>>) >>,
     \* records of organisms that were not identified, without a vernacular name
     << RawRecord(0, "Unidentified species", <<>>),
        RawRecord(0, "Unidentified sp2", <<>>) >> >>

\* what the vernacularNames endpoint can answer: ok is response.ok, status 0 a throw
VernAnswers ==
  { [status |-> 0, results |-> <<>>],
    [status |-> 404, results |-> <<>>],
    [status |-> 200, results |-> <<Vern("Grand Corbeau", "fra"), Vern("Common Raven", "eng")>>],
    [status |-> 200, results |-> <<>>] }

RetryAfterHeaders == {<<>>, <<0>>, <<30>>, <<600>>}

Responses ==
  {[status |-> 0, json |-> FALSE, body |-> "text", payload |-> 0, retryAfter |-> <<>>]}
  \cup {[status |-> 429, json |-> TRUE, body |-> "empty", payload |-> 0, retryAfter |-> h] :
          h \in RetryAfterHeaders}
  \cup {[status |-> 429, json |-> FALSE, body |-> "html", payload |-> 0, retryAfter |-> <<>>]}
  \cup {[status |-> st, json |-> TRUE, body |-> b, payload |-> 0, retryAfter |-> <<>>] :
          st \in {200, 404, 503}, b \in {"html", "text", "null", "empty"}}
  \cup {[status |-> st, json |-> FALSE, body |-> "empty", payload |-> 0, retryAfter |-> <<>>] :
          st \in {200, 404, 503}}
  \cup {[status |-> 200, json |-> TRUE, body |-> "results", payload |-> k, retryAfter |-> <<>>] :
          k \in 1..Len(Payloads)}

\* response.ok
ResponseOk(r) == r.status >= 200 /\ r.status <= 299

\* JSON.parse(responseText) does not throw
ParsesAsJSON(r) == r.body \in {"null", "empty", "results"}

\* a page test that looks at the body only
StartsWithTag(r) == r.body = "html"

\* a classification without the test for a page
NoPageTest(r) == FALSE

\* responseText.trim().startsWith('<') || !contentType.includes('application/json')
IsNonJSONPage(r) == r.body = "html" \/ ~r.json

(***************************************************************************)
(* Parsing of a successful response                                        *)
(***************************************************************************)
\* the first element of q that satisfies Test, <<>> when none (Array.prototype.find)
Find(q, Test(_)) == LET hits == SelectSeq(q, Test) IN IF hits = <<>> THEN <<>> ELSE <<hits[1]>>

\* cleaned if it is a valid common name, "" otherwise
ValidOrEmpty(cleaned) == IF isValidCommonName(cleaned) THEN cleaned ELSE ""

\* the cleaned name of the first entry whose cleaned name is valid, "" when none
FirstValid(ok) == IF ok = <<>> THEN "" ELSE sanitizeDisplayName(ok[1].vernacularName)

FirstValidName(q) ==
  FirstValid(SelectSeq(q, LAMBDA n : n.vernacularName # ""
                                     /\ isValidCommonName(sanitizeDisplayName(n.vernacularName))))

\* "" or the cleaned valid name of a found entry
ValidNameOf(found) ==
  IF found # <<>> THEN ValidOrEmpty(sanitizeDisplayName(found[1].vernacularName)) ELSE ""

\* the first of five names that is not ""
FirstOf(a, b, c, d, e) == OrElse(a, OrElse(b, OrElse(c, OrElse(d, e))))

getBestVernacular(record) ==
  FirstOf(ValidNameOf(Find(record.vernacularNames,
                           LAMBDA n : n.language \in {"eng", "en"} /\ n.vernacularName # "")),
          ValidNameOf(Find(record.vernacularNames,
                           LAMBDA n : startsWith(toLowerCase(n.language), "en")
                                      /\ n.vernacularName # "")),
          FirstValidName(record.vernacularNames),
          ValidOrEmpty(sanitizeDisplayName(record.vernacularName)),
          ValidOrEmpty(sanitizeDisplayName(record.commonName)))

\* the display name the answer v of the vernacularNames endpoint gives, "" when none
FoundName(englishName) ==
  IF englishName # <<>> THEN sanitizeDisplayName(englishName[1].vernacularName) ELSE ""

VernacularFromAnswer(v) ==
  IF v.status >= 200 /\ v.status <= 299
  THEN FoundName(Find(v.results,
                      LAMBDA e : e.language = "eng" /\ e.vernacularName # ""
                                 /\ isValidCommonName(sanitizeDisplayName(e.vernacularName))))
  ELSE ""

\* the seen map once the record has its final display name
AddCleaned(seen, cleanedDisplay, scientific, className, radius) ==
  IF cleanedDisplay = "" \/ MapHas(seen, toLowerCase(cleanedDisplay)) THEN seen
  ELSE Append(seen,
              <<toLowerCase(cleanedDisplay),
                [name |-> capitalizeWords(sanitizeDisplayName(cleanedDisplay)),
                 scientificName |-> scientific,
                 type |-> singularize(className),
                 habitat |-> inferHabitat(cleanedDisplay, className),
                 source |-> "GBIF-" \o ToString(radius) \o "km",
                 lastUsed |-> 0]>>)

\* the curated mapping names the record when nothing else has
MappedDisplay(display, mapped) == IF display = "" /\ mapped # "" THEN mapped ELSE display

\* display ? sanitizeDisplayName(display) : '', kept when valid, else the binomial
CleanedDisplay(display, scientific) ==
  IF isValidCommonName(sanitizeDisplayName(display)) THEN sanitizeDisplayName(display)
  ELSE scientific

\* the rest of a turn once the binomial is known
AddScientific(seen, display, scientific, className, radius) ==
  AddCleaned(seen, CleanedDisplay(MappedDisplay(display, scientificToCommon(scientific)), scientific),
             scientific, className, radius)

\* one turn of the results loop once display is known: the seen map afterwards
AddRecord(seen, record, display, className, radius) ==
  AddScientific(seen, display,
                extractBinomial(OrElse(record.scientificName, record.canonicalName)),
                className, radius)

\* the record needs the vernacularNames endpoint
NeedsVernacularLookup(seen, display, record) ==
  display = "" /\ record.key # 0 /\ Len(seen) < 20

\* an answer to a turn of the results loop: display is getBestVernacular's
RECURSIVE ResultsLoop(_, _, _, _, _, _, _)
ResultTurn(recs, i, seen, answers, a, className, radius, display) ==
  IF NeedsVernacularLookup(seen, display, recs[i])
  THEN IF a >= Len(answers) THEN [done |-> FALSE, seen |-> seen]
       ELSE ResultsLoop(recs, i + 1,
                        AddRecord(seen, recs[i], VernacularFromAnswer(answers[a + 1]),
                                  className, radius),
                        answers, a + 1, className, radius)
  ELSE ResultsLoop(recs, i + 1, AddRecord(seen, recs[i], display, className, radius),
                   answers, a, className, radius)

\* the results loop from record i on, given the answers that the vernacularNames
\* endpoint has given so far (a of them are used up): it stops at the first record
\* that needs an answer not yet given (done = FALSE) or at the end of the records
ResultsLoop(recs, i, seen, answers, a, className, radius) ==
  IF i > Len(recs) \/ i > 50 THEN [done |-> TRUE, seen |-> seen]
  ELSE ResultTurn(recs, i, seen, answers, a, className, radius, getBestVernacular(recs[i]))

\* the name the post-processing shows, given the binomial and the cleaned name
PostName(cleaned, binomial) ==
  formatDisplayForUI(IF ~isValidCommonName(cleaned) /\ binomial # ""
                        /\ scientificToCommon(binomial) # ""
                     THEN scientificToCommon(binomial) ELSE cleaned,
                     binomial)

PostRecord(s, finalDisplay, binomial, className, radius) ==
  [name |-> finalDisplay,
   scientificName |-> binomial,
   type |-> singularize(OrElse(s.type, className)),
   habitat |-> OrElse(s.habitat, inferHabitat(finalDisplay, className)),
   source |-> OrElse(s.source, "GBIF-" \o ToString(radius) \o "km"),
   lastUsed |-> 0]

PostBinomial(s, binomial, className, radius) ==
  PostRecord(s, PostName(sanitizeDisplayName(s.name), binomial), binomial, className, radius)

\* the map(...) of the post-processing, for one candidate
Post(s, className, radius) ==
  PostBinomial(s, extractBinomial(OrElse(s.scientificName, s.name)), className, radius)

\* .slice(0, 200).filter(...)
SliceAndFilter(mapped) ==
  SelectSeq(SubSeq(mapped, 1, IF Len(mapped) < 200 THEN Len(mapped) ELSE 200),
            LAMBDA s : s.name # "" /\ toLowerCase(s.name) # "unknown species")

\* the post-processing of the seen map into the list fetchFromGBIF returns
FinalSpecies(seen, className, radius) ==
  SliceAndFilter([i \in 1..Len(seen) |-> Post(seen[i][2], className, radius)])

\* the outcome of the results loop for the caller of fetchFromGBIF
Outcome(lp, className, radius) ==
  IF lp.done THEN [done |-> TRUE, species |-> FinalSpecies(lp.seen, className, radius)]
  ELSE [done |-> FALSE, species |-> <<>>]

\* what the processing of results array k has come to once the vernacularNames
\* endpoint has given answers: waiting for one more answer (done = FALSE) or the
\* list that fetchFromGBIF returns
ParseResults(k, className, radius, answers) ==
  Outcome(ResultsLoop(Payloads[k], 1, <<>>, answers, 0, className, radius), className, radius)

(***************************************************************************)
(* The values of the pure functions above on the inputs of the model,      *)
(* computed once.                                                          *)
(***************************************************************************)
\* the coordinates of the requests, in thousandths of a degree: Redlands (California)
\* and the open Pacific
Coordinates == {<<34046, -117267>>, <<0, -160000>>}

Radii == {50, 200}

\* the answers of the vernacularNames endpoint that one call can receive
AnswerSeqs == {<<>>} \cup {<<v>> : v \in VernAnswers}

ParseInputs ==
  {<<k, c, r, a>> : k \in 1..Len(Payloads), c \in ClassNames, r \in Radii, a \in AnswerSeqs}

ParseTable == [x \in ParseInputs |-> ParseResults(x[1], x[2], x[3], x[4])]

GlobalTable == [c \in ClassNames |-> getGlobalFallback(c)]

\* the place of the oldest cluster of the birds of a seeded cache
SeededPlace == <<10, -170000>>

RegionalInputs == {<<x, c>> : x \in Coordinates \cup {SeededPlace}, c \in ClassNames}

RegionalTable == [x \in RegionalInputs |-> getRegionalFallback(x[1][1], x[1][2], x[2])]

\* the members of a sequence
Range(q) == {q[i] : i \in 1..Len(q)}

\* every candidate that a tier can produce, with the class it is produced for
TierLists ==
  {<<ParseTable[x].species, x[2]>> : x \in ParseInputs}
  \cup {<<GlobalTable[c], c>> : c \in ClassNames}
  \cup {<<RegionalTable[x], x[2]>> : x \in RegionalInputs}

TierCandidates == {y : y \in UNION {{<<s, x[2]>> : s \in Range(x[1])} : x \in TierLists}}

NormalizeTable == [x \in TierCandidates |-> NormalizeCandidate(x[1], x[2])]

SourceTable == [x \in {y[1].source : y \in TierCandidates} |-> IsGbifSource(x)]

\* the candidates as the cache stores them
StoredCandidates == {<<NormalizeTable[x], x[2]>> : x \in TierCandidates}

\* the species.map(...) of cacheSpecies
Normalized(species, className) ==
  [i \in 1..Len(species) |->
     IF <<species[i], className>> \in TierCandidates
     THEN NormalizeTable[<<species[i], className>>]
     ELSE NormalizeCandidate(species[i], className)]

\* the entry cacheSpecies stores
NewEntry(normalized, latitude, longitude, t) ==
  [species |-> normalized,
   timestamp |-> t,
   location |-> <<latitude, longitude>>,
   seededByGBIF |-> \E i \in 1..Len(normalized) : SourceTable[normalized[i].source]]

\* a cacheSpecies that never evicts
NeverEvicted(m, classKeys) == m

\* a cacheSpecies that evicts the newest key of the class
EvictsNewest(m, classKeys) ==
  IF Len(classKeys) >= maxCacheSize THEN MapDelete(m, classKeys[Len(classKeys)]) ELSE m

\* the eviction of cacheSpecies: the oldest key of the class goes when the class is full
Evicted(m, classKeys) == IF Len(classKeys) >= maxCacheSize THEN MapDelete(m, classKeys[1]) ELSE m

\* the cache after cacheSpecies(latitude, longitude, taxonomicClass, species) at time t
cacheSpecies(m, latitude, longitude, className, species, t) ==
  MapSet(Evicted(m, ClassKeys(m, className)),
         generateLocationKey(latitude, longitude, className),
         NewEntry(Normalized(species, className), latitude, longitude, t))

(***************************************************************************)
(* selectSpecies: the class of the request and the shape of the answer     *)
(***************************************************************************)
\* the callback of taxonomicClasses.find(...), requested being lower-cased
MatchesClass(cls, requested) ==
  \/ toLowerCase(cls.name) = requested
  \/ endsWith(toLowerCase(cls.name), "s")
       /\ SubSeq(toLowerCase(cls.name), 1, Len(cls.name) - 1) = requested
  \/ endsWith(requested, "s") /\ SubSeq(requested, 1, Len(requested) - 1) = toLowerCase(cls.name)
  \/ toLowerCase(cls.displayName) = requested

\* the index of the first class that satisfies the callback, 0 when none
FirstMatch(hits) == IF hits = {} THEN 0 ELSE CHOOSE i \in hits : \A j \in hits : i <= j

\* the index of the class that preferences.speciesType asks for, 0 when it asks for none
RequestedClass(animalType) ==
  IF animalType = "" THEN 0
  ELSE FirstMatch({i \in 1..Len(taxonomicClasses) :
                     MatchesClass(taxonomicClasses[i], toLowerCase(animalType))})

\* Math.floor(Math.random() * this.taxonomicClasses.length) + 1: the class that is
\* picked when none is requested
RandomIndices == {3}

\* the values of preferences.speciesType: absent, singular, display name, unknown
SpeciesTypes == {"", "bird", "Fish", "plants"}

\* values of preferences.speciesType in the plural, the singular and the display name
\* of the classes, in several letter cases, and two that name no class
ClassHints ==
  {"", "plants", "birds", "bird", "Birds", "MAMMALS", "mammal", "Fish", "fish", "FISH",
   "Reptile", "reptiles", "amphibian", "AMPHIBIANS"}

RequestedTable == [a \in SpeciesTypes \cup ClassHints |-> RequestedClass(a)]

\* candidate.scientificName ? extractBinomial(candidate.scientificName) : 'Unknown'
ScientificSanitized(candidate) ==
  IF candidate.scientificName # "" THEN extractBinomial(candidate.scientificName) ELSE "Unknown"

\* an answer without the defaults for a missing name
UndefaultedSpecies(candidate, className) ==
  [name |-> capitalizeWords(sanitizeDisplayName(candidate.name)),
   scientificName |-> extractBinomial(candidate.scientificName),
   type |-> singularize(className)]

\* the object selectSpecies returns for candidate
formattedSpecies(candidate, className) ==
  [name |-> OrElse(capitalizeWords(sanitizeDisplayName(candidate.name)), "Unknown Species"),
   scientificName |-> OrElse(ScientificSanitized(candidate), "Unknown"),
   type |-> singularize(className)]

FormattedInputs == {x : x \in StoredCandidates \cup TierCandidates}

FormattedTable == [x \in FormattedInputs |-> formattedSpecies(x[1], x[2])]

\* String(name).toLowerCase(), for the names of the candidates
LowerNameTable == [n \in {x[1].name : x \in FormattedInputs} |-> toLowerCase(n)]

(***************************************************************************)
(* State                                                                   *)
(***************************************************************************)
VARIABLES
  now,            \* Date.now(), in milliseconds
  gbifCircuit,    \* this.gbifCircuit
  lastGBIFError,  \* this.lastGBIFError: <<>> for null, <<[status, message]>> otherwise
  cache,          \* this.cache
  proc,           \* the calls in progress, one per concurrent caller
  started,        \* the number of public calls started so far
  upstream,       \* how the upstream behaves during the run
  probe           \* a function of the service under observation: <<>>, or its arguments and values

vars == <<now, gbifCircuit, lastGBIFError, cache, proc, started, upstream, probe>>

\* bounds of the model
StartTime == 1000

NumProcs == 2

MaxCalls == 2

MaxTime == 46000

\* the time between two arrivals that the clock may jump over
ArrivalGap == 40000

Procs == 1..NumProcs

\* Math.floor(Math.random() * 250): the two ends of its range
Jitters == {0, 249}

\* the classes of the requests
RequestClasses == {"birds", "fish"}

maxRetries == 3

IdleProc ==
  [op |-> "none", pc |-> "idle", lat |-> 0, lon |-> 0, cls |-> "", count |-> 0,
   radius |-> 0, attempt |-> 0, wakeAt |-> 0, reqs |-> 0,
   all5xx |-> FALSE, allThrew |-> FALSE,
   payload |-> 0, answers |-> <<>>, fres |-> <<>>, ret |-> <<>>,
   result |-> [name |-> "", scientificName |-> "", type |-> ""]]

\* the state after construction, under an upstream whose behaviour is one of U
Constructed(U) ==
  /\ now = StartTime
  /\ gbifCircuit = [open |-> FALSE, openUntil |-> 0, lastOpenedReason |-> "null",
                    consecutiveFailures |-> 0]
  /\ lastGBIFError = <<>>
  /\ cache = <<>>
  /\ proc = [p \in Procs |-> IdleProc]
  /\ started = 0
  /\ upstream \in U
  /\ probe = <<>>

\* the upstream can answer each request with any of Responses
Init == Constructed({"any"})

(***************************************************************************)
(* fetchFromGBIF.  A call runs from one await to the next in one step.     *)
(*   pc = "delay"      the 250 ms delay before an attempt's request        *)
(*   pc = "response"   the attempt's request is in flight                  *)
(*   pc = "backoff"    the sleep after a retried 5xx                       *)
(*   pc = "errwait"    the sleep after a caught exception                  *)
(*   pc = "vdelay"     the 100 ms delay before a vernacularNames request   *)
(*   pc = "vresponse"  the vernacularNames request is in flight            *)
(*   pc = "fetched"    the call has returned fres; its caller resumes next *)
(* reqs counts the network requests of the call, all5xx and allThrew tell   *)
(* that every attempt so far has received a 5xx status, or has thrown.     *)
(***************************************************************************)
\* a breaker that rejects the calls after openUntil instead of those before it
CircuitBlocksAfter(c, t) == c.open /\ c.openUntil < t

\* a reset after the timeout that keeps the failure count
CircuitReopenedOnly(c, t) ==
  IF c.open /\ c.openUntil <= t
  THEN [c EXCEPT !.open = FALSE, !.lastOpenedReason = "null"]
  ELSE c

\* the breaker rejects a call that starts at time t
CircuitBlocks(c, t) == c.open /\ c.openUntil > t

\* the breaker once a call has started at time t (the reset after the timeout)
CircuitAfterEntry(c, t) ==
  IF c.open /\ c.openUntil <= t
  THEN [c EXCEPT !.open = FALSE, !.consecutiveFailures = 0, !.lastOpenedReason = "null"]
  ELSE c

CircuitOpenError == <<[status |-> 429, message |-> "GBIF circuit open - previously rate limited"]>>

\* the call of q's caller once it has run to its first await or to its return
ProcAfterEntry(q, c, t, radius) ==
  IF CircuitBlocks(c, t)
  THEN [q EXCEPT !.pc = "fetched", !.radius = radius, !.attempt = 0, !.reqs = 0,
                 !.all5xx = FALSE, !.allThrew = FALSE, !.fres = <<>>]
  ELSE [q EXCEPT !.pc = "delay", !.radius = radius, !.attempt = 1, !.reqs = 0,
                 !.all5xx = TRUE, !.allThrew = TRUE, !.fres = <<>>,
                 !.wakeAt = t + 250]

\* process p, being q, calls fetchFromGBIF(q.lat, q.lon, q.cls, radius)
fetchFromGBIF(p, q, radius) ==
  /\ gbifCircuit' = CircuitAfterEntry(gbifCircuit, now)
  /\ lastGBIFError' = IF CircuitBlocks(gbifCircuit, now) THEN CircuitOpenError ELSE <<>>
  /\ proc' = [proc EXCEPT ![p] = ProcAfterEntry(q, gbifCircuit, now, radius)]

\* the call returns list
Returned(q, list) ==
  [q EXCEPT !.pc = "fetched", !.fres = list, !.payload = 0, !.answers = <<>>, !.wakeAt = 0]

\* the top of the attempt loop: the next attempt's 250 ms delay
NextAttempt(q, t) ==
  [q EXCEPT !.pc = "delay", !.attempt = q.attempt + 1, !.wakeAt = t + 250]

\* the request of an attempt goes out
IssueRequest(p) ==
  /\ proc[p].pc = "delay"
  /\ now >= proc[p].wakeAt
  /\ proc' = [proc EXCEPT ![p].pc = "response", ![p].reqs = proc[p].reqs + 1, ![p].wakeAt = 0]
  /\ UNCHANGED <<now, gbifCircuit, lastGBIFError, cache, started, upstream, probe>>

\* retryAfter ? parseInt(retryAfter, 10) * 1000 : 60000
RetryAfterMs(h) == IF h # <<>> THEN h[1] * 1000 ELSE 60000

Min(a, b) == IF a <= b THEN a ELSE b

\* an open window without the 5 s margin
RateLimitOpenMsExact(h) == IF RetryAfterMs(h) <= 600000 THEN RetryAfterMs(h) ELSE 600000

\* Math.min(retryAfterMs + 5000, 1000 * 60 * 10)
RateLimitOpenMs(h) == Min(RetryAfterMs(h) + 5000, 600000)

\* a 429 that is counted but does not open the breaker
CountsRateLimit(c, h, t) == [c EXCEPT !.consecutiveFailures = c.consecutiveFailures + 1]

\* the breaker after a 429 handled at time t
CircuitAfter429(c, h, t) ==
  [c EXCEPT !.open = TRUE,
            !.openUntil = t + RateLimitOpenMs(h),
            !.lastOpenedReason = "429 rate limit",
            !.consecutiveFailures = c.consecutiveFailures + 1]

\* the breaker after a non-ok response that is not retried, handled at time t
CircuitAfterFailure(c, t) ==
  IF c.consecutiveFailures >= 2
  THEN [c EXCEPT !.open = TRUE, !.openUntil = t + 120000,
                 !.lastOpenedReason = "Repeated 5xx errors"]
  ELSE c

\* a retry of every 5xx, whatever the number of the attempt
AlwaysRetries(r, attempt) == r.status >= 500

\* a 5xx is retried
RetriesServerError(r, attempt) == r.status >= 500 /\ attempt < maxRetries

\* the catch block of the attempt loop
CaughtError(q, t) ==
  IF q.attempt < maxRetries
  THEN [q EXCEPT !.pc = "errwait", !.wakeAt = t + 1000 * q.attempt,
                 !.payload = 0, !.answers = <<>>]
  ELSE Returned(q, <<>>)

\* the results loop of q's payload runs as far as the answers in q allow: to the
\* return of the call or to the 100 ms delay before the next vernacularNames request
AfterResults(q, res, t) ==
  IF res.done THEN Returned(q, res.species)
  ELSE [q EXCEPT !.pc = "vdelay", !.wakeAt = t + 100]

ContinueResults(q, t) == AfterResults(q, ParseTable[<<q.payload, q.cls, q.radius, q.answers>>], t)

\* the response r of the attempt arrives (status 0: the request throws)
HandleResponse(p, r, jitter) ==
  LET q == [proc[p] EXCEPT !.all5xx = proc[p].all5xx /\ r.status >= 500,
                           !.allThrew = proc[p].allThrew /\ r.status = 0] IN
  /\ proc[p].pc = "response"
  /\ UNCHANGED <<now, cache, started, upstream, probe>>
  /\ IF r.status = 0
     THEN /\ lastGBIFError' = <<[status |-> 0, message |-> "fetch failed"]>>
          /\ proc' = [proc EXCEPT ![p] = CaughtError(q, now)]
          /\ UNCHANGED gbifCircuit
     ELSE IF r.status = 429
     THEN /\ lastGBIFError' = <<[status |-> 429, message |-> "GBIF rate limited"]>>
          /\ gbifCircuit' = CircuitAfter429(gbifCircuit, r.retryAfter, now)
          /\ proc' = [proc EXCEPT ![p] = Returned(q, <<>>)]
     ELSE IF IsNonJSONPage(r)
     THEN /\ lastGBIFError' = <<[status |-> r.status, message |-> "Unexpected content from GBIF"]>>
          /\ proc' = [proc EXCEPT ![p] = Returned(q, <<>>)]
          /\ UNCHANGED gbifCircuit
     ELSE IF ~ResponseOk(r)
     THEN /\ lastGBIFError' = <<[status |-> r.status, message |-> "GBIF API returned"]>>
          /\ IF RetriesServerError(r, q.attempt)
             THEN /\ proc' = [proc EXCEPT ![p] = [q EXCEPT !.pc = "backoff",
                                !.wakeAt = now + 1000 * 2 ^ q.attempt + jitter]]
                  /\ UNCHANGED gbifCircuit
             ELSE /\ gbifCircuit' = CircuitAfterFailure(gbifCircuit, now)
                  /\ proc' = [proc EXCEPT ![p] = Returned(q, <<>>)]
     ELSE IF ~ParsesAsJSON(r)
     THEN /\ lastGBIFError' = <<[status |-> r.status, message |-> "Invalid JSON from GBIF"]>>
          /\ proc' = [proc EXCEPT ![p] = Returned(q, <<>>)]
          /\ UNCHANGED gbifCircuit
     ELSE IF r.body = "null"
     THEN \* data.results throws a TypeError, which the catch block takes
          /\ lastGBIFError' = <<[status |-> 0, message |-> "Cannot read properties of null"]>>
          /\ proc' = [proc EXCEPT ![p] = CaughtError(q, now)]
          /\ UNCHANGED gbifCircuit
     ELSE IF r.body = "empty"
     THEN /\ lastGBIFError' = <<>>
          /\ proc' = [proc EXCEPT ![p] = Returned(q, <<>>)]
          /\ UNCHANGED gbifCircuit
     ELSE LET q1 == ContinueResults([q EXCEPT !.payload = r.payload, !.answers = <<>>], now)
          IN  /\ lastGBIFError' = IF q1.pc = "fetched" THEN <<>> ELSE lastGBIFError
              /\ proc' = [proc EXCEPT ![p] = q1]
              /\ UNCHANGED gbifCircuit

\* the sleep after a retried 5xx ends: the failure is counted and the loop continues
BackoffDone(p) ==
  /\ proc[p].pc = "backoff"
  /\ now >= proc[p].wakeAt
  /\ gbifCircuit' = [gbifCircuit EXCEPT !.consecutiveFailures = gbifCircuit.consecutiveFailures + 1]
  /\ proc' = [proc EXCEPT ![p] = NextAttempt(proc[p], now)]
  /\ UNCHANGED <<now, lastGBIFError, cache, started, upstream, probe>>

\* the sleep after a caught exception ends
ErrWaitDone(p) ==
  /\ proc[p].pc = "errwait"
  /\ now >= proc[p].wakeAt
  /\ proc' = [proc EXCEPT ![p] = NextAttempt(proc[p], now)]
  /\ UNCHANGED <<now, gbifCircuit, lastGBIFError, cache, started, upstream, probe>>

\* the vernacularNames request of the record the results loop waits at goes out
IssueVernacularRequest(p) ==
  /\ proc[p].pc = "vdelay"
  /\ now >= proc[p].wakeAt
  /\ proc' = [proc EXCEPT ![p].pc = "vresponse", ![p].reqs = proc[p].reqs + 1, ![p].wakeAt = 0]
  /\ UNCHANGED <<now, gbifCircuit, lastGBIFError, cache, started, upstream, probe>>

\* the answer v of the vernacularNames endpoint arrives; the results loop goes on
HandleVernacularResponse(p, v) ==
  LET q == proc[p]
      q1 == ContinueResults([q EXCEPT !.answers = Append(q.answers, v)], now)
  IN  /\ q.pc = "vresponse"
      /\ lastGBIFError' = IF q1.pc = "fetched" THEN <<>> ELSE lastGBIFError
      /\ proc' = [proc EXCEPT ![p] = q1]
      /\ UNCHANGED <<now, gbifCircuit, cache, started, upstream, probe>>

\* the timers that are set
Timers ==
  {proc[p].wakeAt : p \in {x \in Procs : proc[x].pc \in {"delay", "backoff", "errwait", "vdelay"}}}

\* the clock moves to a timer, to the end of the open window, or by ArrivalGap, and
\* never beyond a timer that is set
TickTargets ==
  Timers \cup (IF gbifCircuit.open THEN {gbifCircuit.openUntil} ELSE {}) \cup {now + ArrivalGap}

Tick(t) ==
  /\ t > now
  /\ t <= MaxTime
  /\ \A w \in Timers : t <= w
  /\ now' = t
  /\ UNCHANGED <<gbifCircuit, lastGBIFError, cache, proc, started, upstream, probe>>

\* the arguments of the direct calls of fetchFromGBIF
FetchTargets == {<<34046, -117267, "birds", 50>>, <<0, -160000, "fish", 200>>}

\* a caller calls fetchFromGBIF directly
StartFetch(p, lat, lon, cls, radius) ==
  /\ proc[p].pc = "idle"
  /\ started < MaxCalls
  /\ started' = started + 1
  /\ fetchFromGBIF(p, [IdleProc EXCEPT !.op = "fetch", !.lat = lat, !.lon = lon, !.cls = cls], radius)
  /\ UNCHANGED <<now, cache, upstream, probe>>

(***************************************************************************)
(* getSpeciesForClass: the cascade.                                        *)
(*   pc = "resolved"   the call has returned ret                           *)
(***************************************************************************)
\* cachedEntry.species.slice(0, count)
Slice(species, count) == SubSeq(species, 1, Min(count, Len(species)))

\* a lookup that goes to the upstream whatever the cache holds
AlwaysFetch(p, q, entry) == fetchFromGBIF(p, q, 50)

\* the call returns the list of a usable cache entry, or goes to the upstream
AfterLookup(p, q, entry) ==
  IF entry # <<>> /\ Len(entry[1].species) > 0
  THEN /\ proc' = [proc EXCEPT ![p] = [q EXCEPT !.pc = "resolved",
                                                !.ret = Slice(entry[1].species, q.count)]]
       /\ UNCHANGED <<gbifCircuit, lastGBIFError>>
  ELSE fetchFromGBIF(p, q, 50)

\* process p, being q, calls getSpeciesForClass(q.lat, q.lon, q.cls, q.count)
getSpeciesForClass(p, q) == AfterLookup(p, q, getCachedEntry(cache, q.lat, q.lon, q.cls))

\* a cascade that concatenates the global tier whatever the regional tier yields
AllTiers(species, regionalSpecies, globalSpecies, count) ==
  species \o regionalSpecies \o globalSpecies

\* a cascade that puts the global tier before the regional one
GlobalFirst(species, regionalSpecies, globalSpecies, count) ==
  species \o globalSpecies \o regionalSpecies

\* layers 3 and 4: the list once the static tiers have been added
WithRegional(species, regionalSpecies, globalSpecies, count) ==
  IF regionalSpecies # <<>> /\ Len(species) + Len(regionalSpecies) >= count
  THEN species \o regionalSpecies
  ELSE species \o regionalSpecies \o globalSpecies

\* a return of the list without caching it
ReturnOnly(p, q, species) ==
  /\ cache' = cache
  /\ proc' = [proc EXCEPT ![p] = [q EXCEPT !.pc = "resolved", !.ret = species, !.fres = <<>>]]
  /\ UNCHANGED <<gbifCircuit, lastGBIFError>>

\* this.cacheSpecies(...); return species
CacheAndReturn(p, q, species) ==
  /\ cache' = cacheSpecies(cache, q.lat, q.lon, q.cls, species, now)
  /\ proc' = [proc EXCEPT ![p] = [q EXCEPT !.pc = "resolved", !.ret = species, !.fres = <<>>]]
  /\ UNCHANGED <<gbifCircuit, lastGBIFError>>

\* the cascade resumes with the list that fetchFromGBIF has returned
AfterFetch(p) ==
  /\ proc[p].pc = "fetched"
  /\ proc[p].op \in {"gsfc", "select"}
  /\ UNCHANGED <<now, started, upstream, probe>>
  /\ IF Len(proc[p].fres) >= proc[p].count
     THEN CacheAndReturn(p, proc[p], proc[p].fres)
     ELSE IF proc[p].radius = 50
     THEN fetchFromGBIF(p, proc[p], 200) /\ UNCHANGED cache
     ELSE CacheAndReturn(p, proc[p],
                         WithRegional(proc[p].fres,
                                      RegionalTable[<<<<proc[p].lat, proc[p].lon>>, proc[p].cls>>],
                                      GlobalTable[proc[p].cls], proc[p].count))

\* the values of count
Counts == {1, 5}

\* a caller calls getSpeciesForClass directly
StartGsfc(p, lat, lon, cls, count) ==
  /\ proc[p].pc = "idle"
  /\ started < MaxCalls
  /\ started' = started + 1
  /\ getSpeciesForClass(p, [IdleProc EXCEPT !.op = "gsfc", !.lat = lat, !.lon = lon,
                                            !.cls = cls, !.count = count])
  /\ UNCHANGED <<now, cache, upstream, probe>>

(***************************************************************************)
(* selectSpecies.                                                          *)
(*   pc = "done"   the call has returned result                            *)
(***************************************************************************)
\* a choice of the class that does not look at preferences.speciesType
RandomClass(animalType, randomIndex) == taxonomicClasses[randomIndex].name

\* the class selectSpecies resolves: the requested one, else the random one
TargetClass(animalType, randomIndex) ==
  taxonomicClasses[IF RequestedTable[animalType] # 0 THEN RequestedTable[animalType]
                   ELSE randomIndex].name

\* a caller calls selectSpecies({latitude, longitude, preferences: {speciesType}})
StartSelect(p, lat, lon, animalType, randomIndex) ==
  /\ proc[p].pc = "idle"
  /\ started < MaxCalls
  /\ started' = started + 1
  /\ getSpeciesForClass(p, [IdleProc EXCEPT !.op = "select", !.lat = lat, !.lon = lon,
                                            !.cls = TargetClass(animalType, randomIndex),
                                            !.count = 50])
  /\ UNCHANGED <<now, cache, upstream, probe>>

\* this.noRepeatDays * 24 * 60 * 60 * 1000
twoDaysMs == 172800000

\* the candidates of the entry that were not used in the last two days
Unused(species, t) ==
  {i \in 1..Len(species) : species[i].lastUsed = 0 \/ t - species[i].lastUsed >= twoDaysMs}

\* a sort that puts the most recently used candidate first
MostRecentlyUsed(species) ==
  CHOOSE i \in 1..Len(species) : \A j \in 1..Len(species) : species[i].lastUsed >= species[j].lastUsed

\* the first candidate of the stable sort by lastUsed
LeastRecentlyUsed(species) ==
  CHOOSE i \in 1..Len(species) :
    \A j \in 1..Len(species) :
      \/ species[i].lastUsed < species[j].lastUsed
      \/ species[i].lastUsed = species[j].lastUsed /\ i <= j

\* a selection that ignores lastUsed
AnyCandidate(species, t) == 1..Len(species)

\* the candidates that selectSpecies can pick from the entry at time t
Pickable(species, t) ==
  IF Unused(species, t) # {} THEN Unused(species, t) ELSE {LeastRecentlyUsed(species)}

LowerName(n) == IF n \in DOMAIN LowerNameTable THEN LowerNameTable[n] ELSE toLowerCase(n)

\* cacheEntry.species.findIndex(s => the same name, case aside)
FoundIdx(species, name) ==
  FirstMatch({i \in 1..Len(species) : LowerName(species[i].name) = LowerName(name)})

\* the entry once the candidate at foundIdx is stamped
Stamped(entry, foundIdx, t) ==
  IF foundIdx > 0 THEN [entry EXCEPT !.species[foundIdx].lastUsed = t] ELSE entry

Formatted(candidate, className) ==
  IF <<[candidate EXCEPT !.lastUsed = 0], className>> \in FormattedInputs
  THEN FormattedTable[<<[candidate EXCEPT !.lastUsed = 0], className>>]
  ELSE formattedSpecies(candidate, className)

\* Math.floor(Math.random() * available.length): the two ends of its range
Ends(S) == {i \in S : (\A j \in S : i <= j) \/ (\A j \in S : i >= j)}

\* selectSpecies picks candidate i of the cache entry
SelectFromEntry(p, q, entry, i) ==
  /\ i \in Ends(Pickable(entry.species, now))
  /\ cache' = MapSet(cache, generateLocationKey(q.lat, q.lon, q.cls),
                     Stamped(entry, FoundIdx(entry.species, entry.species[i].name), now))
  /\ proc' = [proc EXCEPT ![p] = [q EXCEPT !.pc = "done", !.ret = <<>>,
                                           !.result = Formatted(entry.species[i], q.cls)]]

\* selectSpecies picks candidate i of the returned list and caches the list
SelectFromList(p, q, i) ==
  /\ i \in Ends(1..Len(q.ret))
  /\ cache' = cacheSpecies(cache, q.lat, q.lon, q.cls, q.ret, now)
  /\ proc' = [proc EXCEPT ![p] = [q EXCEPT !.pc = "done", !.ret = <<>>,
                                           !.result = Formatted(q.ret[i], q.cls)]]

\* the rest of selectSpecies once getSpeciesForClass has returned
SelectWith(p, q, entry, i) ==
  IF q.ret = <<>>
  THEN /\ i = 1
       /\ proc' = [proc EXCEPT ![p] = [q EXCEPT !.pc = "done", !.result = getFallbackSpecies]]
       /\ UNCHANGED cache
  ELSE IF entry # <<>> /\ Len(entry[1].species) > 0
  THEN SelectFromEntry(p, q, entry[1], i)
  ELSE SelectFromList(p, q, i)

\* the largest list a call can handle
MaxList == 17

Select(p, i) ==
  /\ proc[p].pc = "resolved"
  /\ proc[p].op = "select"
  /\ SelectWith(p, proc[p], getCachedEntry(cache, proc[p].lat, proc[p].lon, proc[p].cls), i)
  /\ UNCHANGED <<now, gbifCircuit, lastGBIFError, started, upstream, probe>>

\* where a public call of kind op ends
FinalPc(op) ==
  CASE op = "fetch" -> "fetched"
    [] op = "gsfc" -> "resolved"
    [] op = "select" -> "done"
    [] OTHER -> "never"

\* the caller of a finished public call takes its result
Return(p) ==
  /\ proc[p].pc = FinalPc(proc[p].op)
  /\ proc' = [proc EXCEPT ![p] = IdleProc]
  /\ UNCHANGED <<now, gbifCircuit, lastGBIFError, cache, started, upstream, probe>>

\* the responses of an upstream that ends every call at its first attempt: a rate
\* limit, an object without results, and two of the results arrays
AnswerResponses ==
  {r \in Responses :
     \/ r.status = 429 /\ r.json /\ r.retryAfter = <<>>
     \/ r.status = 200 /\ r.json /\ r.body = "empty"
     \/ r.status = 200 /\ r.json /\ r.body = "results" /\ r.payload \in {1, 2}}

\* the responses of an upstream that is rate limiting or failing while calls overlap,
\* or answers with a result that needs the vernacularNames endpoint
OverlapResponses ==
  {r \in Responses :
     \/ r.status = 429 /\ r.json /\ r.retryAfter \in {<<>>, <<600>>}
     \/ r.status = 503 /\ r.json /\ r.body = "empty"
     \/ r.status = 200 /\ r.body = "results" /\ r.payload = 2}

\* what the species search can answer under each behaviour of the upstream
UpstreamResponses(u) ==
  CASE u = "any" -> Responses
    [] u = "answering" -> AnswerResponses
    [] u = "unreachable" -> {r \in Responses : r.status = 0}
    [] u = "failing" -> {r \in Responses : r.status = 503 /\ r.json /\ r.body = "empty"}
    [] u = "overlapping" -> OverlapResponses
    [] u = "plentiful" -> {r \in Responses : r.payload = 4}
    [] u = "unidentified" -> {r \in Responses : r.payload = 5}

\* the steps of the attempts of the calls of fetchFromGBIF that the callers in P
\* have in progress
AttemptSteps(P) ==
  \E p \in P :
    \/ IssueRequest(p)
    \/ \E r \in UpstreamResponses(upstream), jitter \in Jitters : HandleResponse(p, r, jitter)
    \/ IssueVernacularRequest(p)
    \/ \E v \in VernAnswers : HandleVernacularResponse(p, v)

\* the ends of the sleeps between the attempts
RetrySteps(P) ==
  \E p \in P :
    \/ BackoffDone(p)
    \/ ErrWaitDone(p)

\* one caller: a call starts when the previous one has returned
OneCaller == {1}

\* one caller calls fetchFromGBIF
Next ==
  \/ \E p \in OneCaller, x \in FetchTargets : StartFetch(p, x[1], x[2], x[3], x[4])
  \/ AttemptSteps(OneCaller)
  \/ RetrySteps(OneCaller)
  \/ \E p \in OneCaller : Return(p)
  \/ \E t \in TickTargets : Tick(t)

Spec == Init /\ [][Next]_vars

\* the upstream is rate limiting or failing, or cannot be reached
InitOverlap == Constructed({"overlapping", "unreachable"})

\* the callers call fetchFromGBIF while calls of other callers are in progress
NextOverlap ==
  \/ \E p \in Procs, x \in FetchTargets : StartFetch(p, x[1], x[2], x[3], x[4])
  \/ AttemptSteps(Procs)
  \/ RetrySteps(Procs)
  \/ \E p \in Procs : Return(p)
  \/ \E t \in TickTargets : Tick(t)

SpecOverlap == InitOverlap /\ [][NextOverlap]_vars

ResolveSteps(P) ==
  \E p \in P :
    \/ AfterFetch(p)
    \/ \E i \in 1..MaxList : Select(p, i)

\* the upstream answers, or cannot be reached, or fails with a server error
InitResolve == Constructed({"answering", "unreachable", "failing"})

\* one caller calls getSpeciesForClass and selectSpecies
NextResolve ==
  \/ \E p \in OneCaller, c \in Coordinates, cls \in RequestClasses, count \in Counts :
       StartGsfc(p, c[1], c[2], cls, count)
  \/ \E p \in OneCaller, c \in Coordinates, a \in SpeciesTypes, i \in RandomIndices :
       StartSelect(p, c[1], c[2], a, i)
  \/ AttemptSteps(OneCaller)
  \/ RetrySteps(OneCaller)
  \/ ResolveSteps(OneCaller)
  \/ \E p \in OneCaller : Return(p)
  \/ \E t \in TickTargets : Tick(t)

SpecResolve == InitResolve /\ [][NextResolve]_vars

(***************************************************************************)
(* The service with a warm cache.  The caches below are built with         *)
(* cacheSpecies and the stamping of selectSpecies, as earlier calls leave  *)
(* them.                                                                   *)
(***************************************************************************)
\* the state of a service whose earlier calls have left one of the caches C
Warmed(C, U) ==
  /\ now = StartTime
  /\ gbifCircuit = [open |-> FALSE, openUntil |-> 0, lastOpenedReason |-> "null",
                    consecutiveFailures |-> 0]
  /\ lastGBIFError = <<>>
  /\ cache \in C
  /\ proc = [p \in Procs |-> IdleProc]
  /\ started = 0
  /\ upstream \in U
  /\ probe = <<>>

\* the cache after getSpeciesForClass has been resolved, under an upstream that could
\* not be reached, for fish at one place of the open ocean and then for birds at n
\* further places, one per millisecond: cacheSpecies has set one entry per place,
\* each holding the global tier, and has evicted none, n being at most maxCacheSize
SeededCache(n) ==
  [i \in 1..(n + 1) |->
     IF i = 1
     THEN <<generateLocationKey(0, -170000, "fish"),
            NewEntry(Normalized(GlobalTable["fish"], "fish"), 0, -170000, i)>>
     ELSE <<generateLocationKey(10 * (i - 1), -170000, "birds"),
            NewEntry(Normalized(GlobalTable["birds"], "birds"), 10 * (i - 1), -170000, i)>>]

\* the class of birds is one entry short of full, or full
FullCaches == {SeededCache(maxCacheSize - 1), SeededCache(maxCacheSize)}

\* the values of count of the calls on a full cache: none, and some
CacheCounts == {0, 5}

InitCache == Warmed(FullCaches, {"unreachable"})

NextCache ==
  \/ \E p \in OneCaller, x \in Coordinates, c \in RequestClasses, n \in CacheCounts :
       StartGsfc(p, x[1], x[2], c, n)
  \/ \E p \in OneCaller : IssueRequest(p)
  \/ \E p \in OneCaller, r \in UpstreamResponses(upstream), jitter \in Jitters :
       HandleResponse(p, r, jitter)
  \/ \E p \in OneCaller : ErrWaitDone(p)
  \/ \E p \in OneCaller : AfterFetch(p)
  \/ \E p \in OneCaller : Return(p)
  \/ \E t \in TickTargets : Tick(t)

SpecCache == InitCache /\ [][NextCache]_vars

\* a second caller, whose calls overlap those of the first
OtherCaller == {2}

\* one caller selects from the oldest cluster of the birds of a full cache while the
\* other one resolves the birds and the fish of a new cluster
NextStamped ==
  \/ \E p \in OneCaller, i \in RandomIndices : StartSelect(p, SeededPlace[1], SeededPlace[2], "bird", i)
  \/ \E p \in OtherCaller, c \in RequestClasses : StartGsfc(p, 0, -160000, c, 5)
  \/ \E p \in Procs : IssueRequest(p)
  \/ \E p \in Procs, r \in UpstreamResponses(upstream), jitter \in Jitters :
       HandleResponse(p, r, jitter)
  \/ \E p \in Procs : ErrWaitDone(p)
  \/ \E p \in Procs : AfterFetch(p)
  \/ \E p \in Procs, i \in 1..MaxList : Select(p, i)
  \/ \E p \in Procs : Return(p)
  \/ \E t \in TickTargets : Tick(t)

SpecStamped == InitCache /\ [][NextStamped]_vars

\* one caller resolves the birds of a place of the open ocean, twice, under an
\* upstream that can answer each request with any of Responses
InitAnswers == Constructed({"any"})

NextAnswers ==
  \/ \E p \in OneCaller : StartGsfc(p, 0, -160000, "birds", 5)
  \/ AttemptSteps(OneCaller)
  \/ RetrySteps(OneCaller)
  \/ \E p \in OneCaller : AfterFetch(p)
  \/ \E p \in OneCaller : Return(p)
  \/ \E t \in TickTargets : Tick(t)

SpecAnswers == InitAnswers /\ [][NextAnswers]_vars

\* the key of the entry the rotation is observed on
RotationKey == generateLocationKey(34046, -117267, "birds")

\* the first of a non-empty set of indices
First(S) == CHOOSE i \in S : \A j \in S : i <= j

\* the cache after selectSpecies has resolved birds at one place under an upstream
\* that could not be reached, and has then picked k candidates of the entry, each
\* time the first it could pick, one pick per 100 ms
RECURSIVE RotatedCache(_)
RotatedCache(k) ==
  IF k = 0
  THEN cacheSpecies(<<>>, 34046, -117267, "birds",
                    WithRegional(<<>>, RegionalTable[<<<<34046, -117267>>, "birds">>],
                                 GlobalTable["birds"], 50), 50)
  ELSE LET m == RotatedCache(k - 1)
           entry == MapGet(m, RotationKey)
           i == First(Pickable(entry.species, 100 * k))
       IN  MapSet(m, RotationKey,
                  Stamped(entry, FoundIdx(entry.species, entry.species[i].name), 100 * k))

\* none of the candidates has been used, or some, or all of them
RotatedCaches == {RotatedCache(k) : k \in 0..Len(MapGet(RotatedCache(0), RotationKey).species)}

\* no call is in progress while the clock moves on by the two days of the window
Rest ==
  /\ \A p \in Procs : proc[p].pc = "idle"
  /\ now <= MaxTime
  /\ now' = now + twoDaysMs
  /\ UNCHANGED <<gbifCircuit, lastGBIFError, cache, proc, started, upstream, probe>>

InitRotate == Warmed(RotatedCaches, {"unreachable"})

NextRotate ==
  \/ \E p \in OneCaller, i \in RandomIndices : StartSelect(p, 34046, -117267, "bird", i)
  \/ \E p \in OneCaller, i \in 1..MaxList : Select(p, i)
  \/ \E p \in OneCaller : Return(p)
  \/ \E t \in TickTargets : Tick(t)
  \/ Rest

SpecRotate == InitRotate /\ [][NextRotate]_vars

\* the event loop runs every timer that is due and every continuation that is ready,
\* and the callers take their results; nothing obliges the upstream to answer
OwnSteps ==
  \/ \E p \in OneCaller : IssueRequest(p) \/ IssueVernacularRequest(p)
  \/ RetrySteps(OneCaller)
  \/ ResolveSteps(OneCaller)
  \/ \E p \in OneCaller : Return(p)
  \/ \E t \in TickTargets : Tick(t)

SpecUnanswered == InitResolve /\ [][NextResolve]_vars /\ WF_vars(OwnSteps)

(***************************************************************************)
(* The functions of the service that depend on no state, applied to        *)
(* arguments that the initial state draws.                                 *)
(***************************************************************************)
\* a freshly constructed service of which one function is observed on one of P
Observing(P) ==
  /\ now = StartTime
  /\ gbifCircuit = [open |-> FALSE, openUntil |-> 0, lastOpenedReason |-> "null",
                    consecutiveFailures |-> 0]
  /\ lastGBIFError = <<>>
  /\ cache = <<>>
  /\ proc = [p \in Procs |-> IdleProc]
  /\ started = 0
  /\ upstream = "any"
  /\ probe \in P

\* the longest name given to sanitizeDisplayName
MaxLen == 3

\* the number of times sanitizeDisplayName is applied to its own value
MaxPasses == 2

\* letters that make a shorthand token, a digit, parentheses, a dot and a space
NameAlphabet == {"s", "p", "a", "1", "(", ")", ".", " "}

NameInputs == UNION {{Flat(q) : q \in [1..n -> NameAlphabet]} : n \in 0..MaxLen}

InitSanitize == Observing({[text |-> x, passes |-> 0] : x \in NameInputs})

\* text = sanitizeDisplayName(text)
Sanitize ==
  /\ probe.passes < MaxPasses
  /\ probe' = [text |-> sanitizeDisplayName(probe.text), passes |-> probe.passes + 1]
  /\ UNCHANGED <<now, gbifCircuit, lastGBIFError, cache, proc, started, upstream>>

SpecSanitize == InitSanitize /\ [][Sanitize]_vars

\* the pieces of a raw scientificName: a genus, an epithet, a space, a comma, an
\* author with a year in parentheses, and a year
BinomialAlphabet == {"Rana", "pipiens", " ", ",", "(Shaw, 1802)", "1802"}

BullfrogName == "Lithobates catesbeianus, (Shaw, 1802)"

BinomialInputs ==
  {BullfrogName} \cup UNION {{Flat(q) : q \in [1..n -> BinomialAlphabet]} : n \in 0..MaxLen}

InitBinomial ==
  Observing({[raw |-> x, binomial |-> "", extracted |-> FALSE] : x \in BinomialInputs})

\* binomial = extractBinomial(raw)
Extract ==
  /\ ~probe.extracted
  /\ probe' = [probe EXCEPT !.binomial = extractBinomial(probe.raw), !.extracted = TRUE]
  /\ UNCHANGED <<now, gbifCircuit, lastGBIFError, cache, proc, started, upstream>>

SpecBinomial == InitBinomial /\ [][Extract]_vars

\* coordinates inside, between and outside the boxes of the two region tests
RegionLatitudes == {0, 26000, 33000, 41000, 45000}

RegionLongitudes == {-160000, -122000, -118000, -80000}

RegionGrid == {<<x, y>> : x \in RegionLatitudes, y \in RegionLongitudes}

RegionalGridTable ==
  [x \in {<<g, c>> : g \in RegionGrid, c \in RequestClasses} |->
     getRegionalFallback(x[1][1], x[1][2], x[2])]

InitRegions ==
  Observing({[first |-> x, second |-> y, cls |-> c, ecoregions |-> <<>>, tables |-> <<>>] :
               x \in RegionGrid, y \in RegionGrid, c \in RequestClasses})

\* the Ecoregion and the regional tier of the two coordinates
Classify ==
  /\ probe.ecoregions = <<>>
  /\ probe' = [probe EXCEPT
                 !.ecoregions = <<getEcoregionFromCoordinates(probe.first[1], probe.first[2]),
                                  getEcoregionFromCoordinates(probe.second[1], probe.second[2])>>,
                 !.tables = <<RegionalGridTable[<<probe.first, probe.cls>>],
                              RegionalGridTable[<<probe.second, probe.cls>>]>>]
  /\ UNCHANGED <<now, gbifCircuit, lastGBIFError, cache, proc, started, upstream>>

SpecRegions == InitRegions /\ [][Classify]_vars

\* the capitals of the ecoregion test, points where boxes overlap and points of no box
CapitalLatitudes == {0, 30267, 33000, 36000, 37541, 41000, 41587, 44311}

CapitalLongitudes == {-160000, -122000, -120000, -97743, -93625, -77436, -69780}

InitEcoregion ==
  Observing({[latitude |-> x, longitude |-> y, regions |-> <<>>] :
               x \in CapitalLatitudes, y \in CapitalLongitudes})

\* one more call of getEcoregionFromCoordinates with the same coordinates
Locate ==
  /\ Len(probe.regions) < MaxPasses
  /\ probe' = [probe EXCEPT !.regions =
                 Append(probe.regions, getEcoregionFromCoordinates(probe.latitude, probe.longitude))]
  /\ UNCHANGED <<now, gbifCircuit, lastGBIFError, cache, proc, started, upstream>>

SpecEcoregion == InitEcoregion /\ [][Locate]_vars

\* the places where cacheSpecies is called: two places of one cluster, and one of the
\* cluster above it
WritePlaces == {<<-5, -160005>>, <<4, -159996>>, <<5, -160005>>}

\* the places where getCachedEntry is called: in the clusters of WritePlaces and in
\* the clusters next to them
ReadPlaces == {<<x, y>> : x \in {-6, -5, 4, 5, 14}, y \in {-160006, -160005, -159996}}

\* the lists that are cached for a class
ClusterLists(cls) == {GlobalTable[cls]}

InitCluster == Constructed({"unreachable"})

\* cacheSpecies(w, cls, list) and then getCachedEntry(r, cls2)
CacheThenGet(w, cls, list, r, cls2) ==
  /\ started < MaxCalls
  /\ started' = started + 1
  /\ cache' = cacheSpecies(cache, w[1], w[2], cls, list, now)
  /\ probe' = [place |-> r, cls |-> cls2, entry |-> getCachedEntry(cache', r[1], r[2], cls2)]
  /\ UNCHANGED <<now, gbifCircuit, lastGBIFError, proc, upstream>>

NextCluster ==
  \/ \E w \in WritePlaces, cls \in RequestClasses, r \in ReadPlaces, cls2 \in RequestClasses :
       \E list \in ClusterLists(cls) : CacheThenGet(w, cls, list, r, cls2)

SpecCluster == InitCluster /\ [][NextCluster]_vars

\* every value of Math.floor(Math.random() * this.taxonomicClasses.length) + 1
AllIndices == 1..Len(taxonomicClasses)

\* one caller calls selectSpecies with each of the hints at a place of the open ocean,
\* after a call of getSpeciesForClass that may have left an empty entry or a call of
\* selectSpecies, while the upstream cannot be reached
InitHints == Constructed({"unreachable"})

NextHints ==
  \/ \E p \in OneCaller, c \in RequestClasses : StartGsfc(p, 0, -160000, c, 0)
  \/ \E p \in OneCaller, a \in ClassHints, i \in AllIndices : StartSelect(p, 0, -160000, a, i)
  \/ \E p \in OneCaller : IssueRequest(p)
  \/ \E p \in OneCaller, r \in UpstreamResponses(upstream), jitter \in Jitters :
       HandleResponse(p, r, jitter)
  \/ \E p \in OneCaller : ErrWaitDone(p)
  \/ \E p \in OneCaller : AfterFetch(p)
  \/ \E p \in OneCaller, i \in 1..MaxList : Select(p, i)
  \/ \E p \in OneCaller : Return(p)
  \/ \E t \in TickTargets : Tick(t)

SpecHints == InitHints /\ [][NextHints]_vars

\* the upstream answers every species search with the eight species, or every one with
\* the records that were not identified
InitRecords == Constructed({"plentiful", "unidentified"})

\* one caller calls selectSpecies for the birds and for a class picked at random
NextRecords ==
  \/ \E p \in OneCaller, x \in Coordinates, a \in {"", "bird"}, i \in RandomIndices :
       StartSelect(p, x[1], x[2], a, i)
  \/ \E p \in OneCaller : IssueRequest(p)
  \/ \E p \in OneCaller, r \in UpstreamResponses(upstream), jitter \in Jitters :
       HandleResponse(p, r, jitter)
  \/ \E p \in OneCaller : AfterFetch(p)
  \/ \E p \in OneCaller, i \in 1..MaxList : Select(p, i)
  \/ \E p \in OneCaller : Return(p)
  \/ \E t \in TickTargets : Tick(t)

SpecRecords == InitRecords /\ [][NextRecords]_vars

\* the upstream answers every species search with the eight species
InitConcurrent == Constructed({"plentiful"})

\* the callers call selectSpecies for the birds of one place while the calls of other
\* callers are in progress
NextConcurrent ==
  \/ \E p \in Procs, i \in RandomIndices : StartSelect(p, 0, -160000, "bird", i)
  \/ \E p \in Procs : IssueRequest(p)
  \/ \E p \in Procs, r \in UpstreamResponses(upstream), jitter \in Jitters :
       HandleResponse(p, r, jitter)
  \/ \E p \in Procs : AfterFetch(p)
  \/ \E p \in Procs, i \in 1..MaxList : Select(p, i)
  \/ \E p \in Procs : Return(p)
  \/ \E t \in TickTargets : Tick(t)

SpecConcurrent == InitConcurrent /\ [][NextConcurrent]_vars

(***************************************************************************)
(* Properties                                                              *)
(***************************************************************************)
\* the step ends the call of p's caller with an empty list, without a request
EndsEmpty(p) ==
  /\ proc'[p].pc = "fetched"
  /\ proc'[p].fres = <<>>
  /\ proc'[p].reqs = proc[p].reqs

\* C1: getSpeciesForClass returns a non-empty list: every call that has returned
\* holds at least one candidate, under an upstream that answers, rate limits, cannot
\* be reached or fails, and the global tier has candidates for every class of the
\* registry.
C1_ResolveNonEmpty ==
  /\ \A c \in ClassNames : Len(GlobalTable[c]) >= 1
  /\ \A p \in Procs : proc[p].pc = "resolved" => Len(proc[p].ret) >= 1

\* a call of getSpeciesForClass far from every region has returned the global tier's
\* list while the breaker rejects the upstream calls
C1_Witness ==
  \E p \in Procs :
    /\ proc[p].op = "gsfc"
    /\ proc[p].pc = "resolved"
    /\ proc[p].lat = 0
    /\ CircuitBlocks(gbifCircuit, now)
    /\ Len(proc[p].ret) >= 1
    /\ \A i \in 1..Len(proc[p].ret) : proc[p].ret[i].source = "global-fallback"

\* C2: selectSpecies always returns one object with a name, a scientific name and a
\* type: a call that getSpeciesForClass has answered can always pick, and the object
\* of a call that is done has its three fields filled.
C2_SelectReturnsObject ==
  \A p \in Procs :
    /\ (proc[p].op = "select" /\ proc[p].pc = "resolved")
         => ENABLED (\E i \in 1..MaxList : Select(p, i))
    /\ proc[p].pc = "done"
         => /\ proc[p].result.name # ""
            /\ proc[p].result.scientificName # ""
            /\ proc[p].result.type # ""

\* a call of selectSpecies is done under an upstream that cannot be reached, with the
\* answer of a candidate that has no scientific name
C2_Witness ==
  \E p \in Procs :
    /\ proc[p].pc = "done"
    /\ upstream = "unreachable"
    /\ proc[p].result.scientificName = "Unknown"

\* C3: a call of fetchFromGBIF that starts while the breaker is open and now is
\* before openUntil returns the empty list without a request and leaves the breaker
\* as it is, whatever the class and the radius.
C3_OpenBreakerRejects ==
  [][\A p \in Procs, x \in FetchTargets :
       (StartFetch(p, x[1], x[2], x[3], x[4]) /\ gbifCircuit.open /\ now < gbifCircuit.openUntil)
         => /\ proc'[p].pc = "fetched"
            /\ proc'[p].fres = <<>>
            /\ proc'[p].reqs = 0
            /\ gbifCircuit' = gbifCircuit]_vars

\* a call for fish within 200 km has been rejected by the open breaker
C3_Witness ==
  \E p \in Procs :
    /\ proc[p].op = "fetch"
    /\ proc[p].pc = "fetched"
    /\ proc[p].cls = "fish"
    /\ proc[p].radius = 200
    /\ proc[p].attempt = 0
    /\ proc[p].reqs = 0
    /\ gbifCircuit.open
    /\ now < gbifCircuit.openUntil

\* C4: a 429 with a retry-after of d seconds ends the call with the empty list and
\* without a further request, and leaves the breaker open until the time of the
\* response plus min(d + 5 s, 10 minutes).
C4_RateLimitOpens ==
  [][\A p \in Procs, r \in Responses, jitter \in Jitters :
       (HandleResponse(p, r, jitter) /\ r.status = 429 /\ r.retryAfter # <<>>)
         => /\ EndsEmpty(p)
            /\ gbifCircuit'.open
            /\ gbifCircuit'.openUntil =
                 now + (IF r.retryAfter[1] * 1000 + 5000 <= 600000
                        THEN r.retryAfter[1] * 1000 + 5000 ELSE 600000)]_vars

\* a call has returned after a 429 with retry-after 30: the breaker is open for 35 s
C4_Witness ==
  \E p \in Procs :
    /\ proc[p].pc = "fetched"
    /\ proc[p].reqs >= 1
    /\ proc[p].fres = <<>>
    /\ gbifCircuit.open
    /\ gbifCircuit.lastOpenedReason = "429 rate limit"
    /\ gbifCircuit.openUntil = now + 35000

\* C5: a call that starts at or after openUntil closes the open breaker (open false,
\* consecutiveFailures 0, reason cleared) and goes on to its request; a call that
\* waits for an attempt's request sends it; and nothing but such a call closes the
\* breaker.
C5_ClosesAfterOpenUntil ==
  [][/\ \A p \in Procs, x \in FetchTargets :
          (StartFetch(p, x[1], x[2], x[3], x[4]) /\ gbifCircuit.open /\ now >= gbifCircuit.openUntil)
            => /\ ~gbifCircuit'.open
               /\ gbifCircuit'.consecutiveFailures = 0
               /\ gbifCircuit'.lastOpenedReason = "null"
               /\ proc'[p].pc = "delay"
     /\ \A p \in Procs :
          (proc[p].pc = "delay" /\ proc'[p] # proc[p])
            => proc'[p].pc = "response" /\ proc'[p].reqs = proc[p].reqs + 1
     /\ (gbifCircuit.open /\ ~gbifCircuit'.open)
          => /\ now >= gbifCircuit.openUntil
             /\ \E p \in Procs :
                  /\ proc[p].pc \in {"idle", "fetched"}
                  /\ proc'[p].pc = "delay"
                  /\ proc'[p].attempt = 1]_vars

\* the request of the call that has closed the breaker after a 429 is in flight
C5_Witness ==
  \E p \in Procs :
    /\ proc[p].pc = "response"
    /\ started = 2
    /\ ~gbifCircuit.open
    /\ gbifCircuit.openUntil > StartTime
    /\ gbifCircuit.openUntil <= now
    /\ gbifCircuit.consecutiveFailures = 0
    /\ gbifCircuit.lastOpenedReason = "null"

\* C6: the first call on a closed breaker with consecutiveFailures 0 that receives a
\* 5xx on each of its three attempts makes at most three requests, leaves
\* consecutiveFailures at 1 and leaves the breaker closed.
C6_FirstExhaustedCallCountsOnce ==
  [][\A p \in Procs :
       (/\ started = 1
        /\ proc[p].pc = "response"
        /\ proc[p].attempt = maxRetries
        /\ proc'[p].pc = "fetched"
        /\ proc'[p].all5xx)
         => /\ proc'[p].reqs <= maxRetries
            /\ gbifCircuit'.consecutiveFailures = 1
            /\ ~gbifCircuit'.open]_vars

\* the step ends the call of p's caller in success: a 2xx JSON response that parses
\* to an object, or the last answer of the vernacularNames endpoint it waited for
EndsInSuccess(p) ==
  /\ proc'[p].pc = "fetched"
  /\ \/ \E r \in Responses, jitter \in Jitters :
          /\ HandleResponse(p, r, jitter)
          /\ ResponseOk(r)
          /\ r.json
          /\ r.body \in {"empty", "results"}
     \/ \E v \in VernAnswers : HandleVernacularResponse(p, v)

\* C7: when a call ends in success, consecutiveFailures is 0 and lastGBIFError is
\* cleared.
C7_SuccessResets ==
  [][\A p \in Procs :
       EndsInSuccess(p) => gbifCircuit'.consecutiveFailures = 0 /\ lastGBIFError' = <<>>]_vars

\* C8: the first call on a closed breaker whose every request throws makes at most
\* three requests, returns the empty list, and leaves consecutiveFailures larger than
\* it was.
C8_NetworkErrorsCount ==
  [][\A p \in Procs :
       (/\ started = 1
        /\ proc[p].pc = "response"
        /\ proc'[p].pc = "fetched"
        /\ proc'[p].allThrew)
         => /\ proc'[p].reqs <= maxRetries
            /\ proc'[p].fres = <<>>
            /\ gbifCircuit'.consecutiveFailures > 0]_vars

\* the body of r starts with '<', or its content type is not application/json, or
\* its body does not parse as JSON
Malformed(r) == r.body = "html" \/ ~r.json \/ ~ParsesAsJSON(r)

\* the step ends the call of p's caller with an empty list and a diagnostic
EndsWithDiagnostic(p) == EndsEmpty(p) /\ lastGBIFError' # <<>>

\* C9, as stated: every malformed response ends the call with the empty list,
\* without a further attempt, and with a diagnostic in lastGBIFError.
C9_MalformedEndsCall ==
  [][\A p \in Procs, r \in Responses, jitter \in Jitters :
       (HandleResponse(p, r, jitter) /\ r.status # 0 /\ Malformed(r))
         => EndsWithDiagnostic(p)]_vars

\* C9: a response whose body starts with '<' or whose content type is not
\* application/json, and a response of a status below 500 whose body does not parse
\* as JSON, end the call with the empty list, without a further attempt, and with a
\* diagnostic in lastGBIFError.
C9_MalformedEndsCallUnlessServerError ==
  [][\A p \in Procs, r \in Responses, jitter \in Jitters :
       (/\ HandleResponse(p, r, jitter)
        /\ r.status # 0
        /\ Malformed(r)
        /\ (r.body = "html" \/ ~r.json \/ r.status < 500))
         => EndsWithDiagnostic(p)]_vars

\* a call has returned after a 200 with the JSON content type whose body does not
\* parse
C9_Witness ==
  \E p \in Procs :
    /\ proc[p].pc = "fetched"
    /\ proc[p].reqs = 1
    /\ proc[p].fres = <<>>
    /\ lastGBIFError = <<[status |-> 200, message |-> "Invalid JSON from GBIF"]>>

\* C10: no request of the species search or of the vernacularNames endpoint goes
\* out while the breaker is open and now is before openUntil.
C10_NoRequestWhileOpen ==
  [][\A p \in Procs :
       (IssueRequest(p) \/ IssueVernacularRequest(p)) => ~CircuitBlocks(gbifCircuit, now)]_vars

\* the entries of the cache m for the cluster and class of the call q
EntriesFor(m, q) ==
  {i \in 1..Len(m) : m[i][1] = generateLocationKey(q.lat, q.lon, q.cls)}

\* the step starts a call of getSpeciesForClass for p's caller, directly or from
\* selectSpecies
StartsResolution(p) ==
  /\ proc[p].pc = "idle"
  /\ proc'[p].pc # "idle"
  /\ proc'[p].op \in {"gsfc", "select"}

\* C16: a call of getSpeciesForClass that finds a non-empty entry for its cluster and
\* class returns the first candidates of that entry without a network request and
\* leaves the breaker, the diagnostic and the cache as they are, also when the
\* entry holds fewer candidates than the call asks for.
C16_CacheHitIsVerbatim ==
  [][\A p \in Procs :
       \A i \in EntriesFor(cache, proc'[p]) :
         (StartsResolution(p) /\ Len(cache[i][2].species) > 0)
           => /\ proc'[p].pc = "resolved"
              /\ proc'[p].reqs = 0
              /\ Len(proc'[p].ret) =
                   (IF proc'[p].count <= Len(cache[i][2].species)
                    THEN proc'[p].count ELSE Len(cache[i][2].species))
              /\ \A k \in 1..Len(proc'[p].ret) : proc'[p].ret[k] = cache[i][2].species[k]
              /\ gbifCircuit' = gbifCircuit
              /\ lastGBIFError' = lastGBIFError
              /\ cache' = cache]_vars

\* a call that asks for 5 candidates has returned the 2 candidates of the entry
\* without a request, the breaker being closed
C16_Witness ==
  \E p \in Procs :
    /\ proc[p].op = "gsfc"
    /\ proc[p].pc = "resolved"
    /\ proc[p].count = 5
    /\ proc[p].reqs = 0
    /\ proc[p].attempt = 0
    /\ Len(proc[p].ret) = 2
    /\ ~gbifCircuit.open
    /\ started = 2

\* the sources of the candidates of the regional tier
RegionalSources == {s.source : s \in UNION {Range(RegionalTable[x]) : x \in RegionalInputs}}

FromRegional(s) == s.source \in RegionalSources

FromGlobal(s) == s.source = "global-fallback"

FromUpstream(s) == ~FromRegional(s) /\ ~FromGlobal(s)

\* C17: a cache miss starts with the fetch within 50 km; the fetch within 200 km
\* starts when the first has returned fewer candidates than asked for; the call then
\* returns the candidates of the second fetch, followed by those of the regional
\* table if the fetch returned too few, followed by those of the global table if
\* both together are too few; a tier that yields enough ends the call, and a call
\* that has its list makes no further step of the cascade.
C17_TiersInOrder ==
  [][\A p \in Procs :
       /\ (StartsResolution(p) /\ proc'[p].pc # "resolved") => proc'[p].radius = 50
       /\ (/\ proc[p].pc = "fetched"
           /\ proc[p].op \in {"gsfc", "select"}
           /\ proc'[p] # proc[p]
           /\ proc[p].radius = 50)
            => IF Len(proc[p].fres) >= proc[p].count
               THEN proc'[p].pc = "resolved" /\ proc'[p].ret = proc[p].fres
               ELSE proc'[p].radius = 200 /\ proc'[p].pc \in {"delay", "fetched"}
       /\ (/\ proc[p].pc = "fetched"
           /\ proc[p].op \in {"gsfc", "select"}
           /\ proc'[p] # proc[p]
           /\ proc[p].radius = 200)
            => /\ proc'[p].pc = "resolved"
               /\ proc'[p].ret =
                    SelectSeq(proc'[p].ret, FromUpstream)
                      \o SelectSeq(proc'[p].ret, FromRegional)
                      \o SelectSeq(proc'[p].ret, FromGlobal)
               /\ SelectSeq(proc'[p].ret, FromUpstream) = proc[p].fres
               /\ SelectSeq(proc'[p].ret, FromRegional) # <<>>
                    => Len(proc[p].fres) < proc[p].count
               /\ SelectSeq(proc'[p].ret, FromGlobal) # <<>>
                    => Len(SelectSeq(proc'[p].ret, FromUpstream))
                         + Len(SelectSeq(proc'[p].ret, FromRegional)) < proc[p].count
       /\ proc[p].pc = "resolved" => proc'[p].pc \in {"resolved", "done", "idle"}]_vars

\* a call that asks for 5 candidates has returned the 2 candidates of the fetch
\* within 200 km followed by the 4 of the regional table, and none of the global
C17_Witness ==
  \E p \in Procs :
    /\ proc[p].op = "gsfc"
    /\ proc[p].pc = "resolved"
    /\ proc[p].count = 5
    /\ proc[p].radius = 200
    /\ Len(SelectSeq(proc[p].ret, FromUpstream)) = 2
    /\ Len(SelectSeq(proc[p].ret, FromRegional)) = 4
    /\ SelectSeq(proc[p].ret, FromGlobal) = <<>>

\* no two candidates of the list have the same name, case aside
Deduplicated(species) ==
  \A i, k \in 1..Len(species) :
    LowerName(species[i].name) = LowerName(species[k].name) => i = k

\* C19: the list of every call of getSpeciesForClass that has returned and the list
\* of every cache entry hold no name twice, case aside.
C19_ListsDeduplicated ==
  /\ \A p \in Procs : proc[p].pc = "resolved" => Deduplicated(proc[p].ret)
  /\ \A i \in 1..Len(cache) : Deduplicated(cache[i][2].species)

\* the number of entries of the class in the cache m
CountOf(m, className) == Cardinality({i \in 1..Len(m) : m[i][1][3] = className})

KeysOf(m) == {m[i][1] : i \in 1..Len(m)}

\* C11: the cache holds at most maxCacheSize entries of each class.
C11_ClassWithinCapacity == \A c \in ClassNames : CountOf(cache, c) <= maxCacheSize

\* a call has cached a new cluster of birds while the class was full: the class is
\* full, and its oldest cluster is gone
C11_Witness ==
  /\ CountOf(cache, "birds") = maxCacheSize
  /\ generateLocationKey(10, -170000, "birds") \notin KeysOf(cache)
  /\ \E p \in Procs : proc[p].pc = "resolved" /\ proc[p].cls = "birds"

\* C12: a step that adds a key of a class that holds maxCacheSize entries removes the
\* first entry of that class, leaves every other entry as it is and where it is in
\* the order of insertion, and puts the new key last.
C12_EvictsOldestOfClass ==
  [][\A k \in KeysOf(cache') \ KeysOf(cache) :
       CountOf(cache, k[3]) = maxCacheSize
         => /\ Len(cache') = Len(cache)
            /\ \A i \in 1..(Len(cache) - 1) :
                 cache'[i] = IF i < First({j \in 1..Len(cache) : cache[j][1][3] = k[3]})
                             THEN cache[i] ELSE cache[i + 1]
            /\ cache'[Len(cache)][1] = k]_vars

\* the class of birds was full when a new cluster of birds came: the entry of the
\* fish is still the first, the second cluster of birds is now the oldest
C12_Witness ==
  /\ Len(cache) = maxCacheSize + 1
  /\ cache[1][1] = generateLocationKey(0, -170000, "fish")
  /\ cache[2][1] = generateLocationKey(20, -170000, "birds")
  /\ cache[Len(cache)][1] \in {generateLocationKey(x[1], x[2], "birds") : x \in Coordinates}

\* the candidate may be picked at time t without a repetition
Eligible(s, t) == s.lastUsed = 0 \/ t - s.lastUsed >= twoDaysMs

\* the step ends p's call of selectSpecies with a candidate of entry i of the cache
SelectsFrom(p, i) ==
  /\ proc[p].pc = "resolved"
  /\ proc[p].op = "select"
  /\ proc'[p].pc = "done"
  /\ i \in EntriesFor(cache, proc[p])
  /\ Len(cache[i][2].species) > 0

\* C13: selectSpecies returns a candidate of the entry that is eligible at the time
\* of the call whenever the entry holds one.
C13_ReturnsEligible ==
  [][\A p \in Procs : \A i \in 1..Len(cache) :
       (/\ SelectsFrom(p, i)
        /\ \E k \in 1..Len(cache[i][2].species) : Eligible(cache[i][2].species[k], now))
         => \E k \in 1..Len(cache[i][2].species) :
              /\ Eligible(cache[i][2].species[k], now)
              /\ proc'[p].result = Formatted(cache[i][2].species[k], proc[p].cls)]_vars

\* two calls after the two days have each returned a candidate of the entry, the
\* second while the candidate of the first was in cooldown and others were eligible
\* again, one of them still being so
C13_Witness ==
  \E p \in Procs :
    /\ proc[p].op = "select"
    /\ proc[p].pc = "done"
    /\ \E i \in EntriesFor(cache, proc[p]) :
         /\ \E k1, k2 \in 1..Len(cache[i][2].species) :
              /\ k1 # k2
              /\ cache[i][2].species[k1].lastUsed = now
              /\ cache[i][2].species[k2].lastUsed = now
         /\ \E k \in 1..Len(cache[i][2].species) :
              /\ cache[i][2].species[k].lastUsed > 0
              /\ now - cache[i][2].species[k].lastUsed >= twoDaysMs

\* C14: when no candidate of the entry is eligible, selectSpecies returns a
\* candidate of the entry whose lastUsed is the smallest.
C14_ReturnsLeastRecentlyUsed ==
  [][\A p \in Procs : \A i \in 1..Len(cache) :
       (/\ SelectsFrom(p, i)
        /\ \A k \in 1..Len(cache[i][2].species) : ~Eligible(cache[i][2].species[k], now))
         => \E k \in 1..Len(cache[i][2].species) :
              /\ \A j \in 1..Len(cache[i][2].species) :
                   cache[i][2].species[k].lastUsed <= cache[i][2].species[j].lastUsed
              /\ proc'[p].result = Formatted(cache[i][2].species[k], proc[p].cls)]_vars

\* every candidate of the entry is in cooldown, and the call has returned the first,
\* whose stamp was the oldest
C14_Witness ==
  \E p \in Procs :
    /\ proc[p].op = "select"
    /\ proc[p].pc = "done"
    /\ \E i \in EntriesFor(cache, proc[p]) :
         /\ proc[p].result = Formatted(cache[i][2].species[1], proc[p].cls)
         /\ cache[i][2].species[1].lastUsed = now
         /\ \A k \in 2..Len(cache[i][2].species) :
              /\ cache[i][2].species[k].lastUsed > 0
              /\ cache[i][2].species[k].lastUsed < now
              /\ ~Eligible(cache[i][2].species[k], now)

\* C15: selectSpecies does not return a name that it has returned for the cluster
\* and class earlier within the window, a stamped candidate of that name telling
\* that it has, as long as the entry holds an eligible candidate of another name.
C15_NoRepeatWithinWindow ==
  [][\A p \in Procs : \A i \in 1..Len(cache) :
       (/\ SelectsFrom(p, i)
        /\ \E k \in 1..Len(cache[i][2].species) :
             /\ Eligible(cache[i][2].species[k], now)
             /\ Formatted(cache[i][2].species[k], proc[p].cls).name # proc'[p].result.name)
         => \A k \in 1..Len(cache[i][2].species) :
              Formatted(cache[i][2].species[k], proc[p].cls).name = proc'[p].result.name
                => \/ cache[i][2].species[k].lastUsed = 0
                   \/ cache[i][2].species[k].lastUsed = now
                   \/ now - cache[i][2].species[k].lastUsed >= twoDaysMs]_vars

\* C18: every entry of the cache holds at least one candidate.
C18_EntriesNonEmpty == \A i \in 1..Len(cache) : Len(cache[i][2].species) >= 1

\* C20: a request that is in flight ends, whether the upstream answers it or not.
C20_RequestsEnd ==
  \A p \in OneCaller :
    (proc[p].pc \in {"response", "vresponse"}) ~> (proc[p].pc \notin {"response", "vresponse"})

\* C29: while the open window of the breaker is in force, no step moves openUntil
\* to an earlier time or closes the breaker.
C29_OpenWindowNeverShrinks ==
  [][(gbifCircuit.open /\ now < gbifCircuit.openUntil)
       => gbifCircuit'.open /\ gbifCircuit'.openUntil >= gbifCircuit.openUntil]_vars

\* C30: a step that opens the closed breaker is the handling of a response whose
\* status is 429 or at least 500.
C30_OnlyRateLimitOrServerErrorOpens ==
  [][(~gbifCircuit.open /\ gbifCircuit'.open)
       => \E p \in Procs, r \in Responses, jitter \in Jitters :
            /\ r.status = 429 \/ r.status >= 500
            /\ HandleResponse(p, r, jitter)]_vars

\* p's call is a resolution of which the fetch within the radius has returned
FetchedFor(p, radius) ==
  /\ proc[p].pc = "fetched"
  /\ proc[p].op \in {"gsfc", "select"}
  /\ proc[p].radius = radius
  /\ proc[p].count >= 1
  /\ proc'[p] # proc[p]

\* the list is the global table of the class, each candidate tagged as such
IsGlobalTier(list, className) ==
  /\ Len(list) = Len(globalFallbacks(className))
  /\ \A k \in 1..Len(list) :
       /\ list[k].name = globalFallbacks(className)[k]
       /\ list[k].source = "global-fallback"

\* C27: a 429 for the fetch within 50 km of a resolution opens the breaker and ends
\* the fetch with no candidate; the fetch within 200 km that follows while the
\* breaker is open returns no candidate without a request; and where the regional
\* table has nothing for the place and class, the resolution returns the global
\* table of the class and caches it with seededByGBIF = false.
C27_RateLimitFallsThrough ==
  [][\A p \in Procs :
       /\ (/\ proc[p].pc = "response"
           /\ proc[p].op \in {"gsfc", "select"}
           /\ proc[p].radius = 50
           /\ \E h \in RetryAfterHeaders, jitter \in Jitters :
                HandleResponse(p, [status |-> 429, json |-> TRUE, body |-> "empty",
                                   payload |-> 0, retryAfter |-> h], jitter))
            => /\ gbifCircuit'.open
               /\ gbifCircuit'.openUntil > now
               /\ proc'[p].pc = "fetched"
               /\ proc'[p].fres = <<>>
       /\ (/\ FetchedFor(p, 50)
           /\ proc[p].fres = <<>>
           /\ gbifCircuit.open
           /\ gbifCircuit.openUntil > now)
            => /\ proc'[p].pc = "fetched"
               /\ proc'[p].radius = 200
               /\ proc'[p].reqs = 0
               /\ proc'[p].fres = <<>>
               /\ gbifCircuit' = gbifCircuit
               /\ cache' = cache
       /\ (/\ FetchedFor(p, 200)
           /\ proc[p].fres = <<>>
           /\ RegionalTable[<<<<proc[p].lat, proc[p].lon>>, proc[p].cls>>] = <<>>)
            => /\ proc'[p].pc = "resolved"
               /\ IsGlobalTier(proc'[p].ret, proc[p].cls)
               /\ \A i \in EntriesFor(cache', proc[p]) :
                    /\ ~cache'[i][2].seededByGBIF
                    /\ IsGlobalTier(cache'[i][2].species, proc[p].cls)
               /\ EntriesFor(cache', proc[p]) # {}]_vars

\* the first call of the service has resolved birds for the open ocean: its one
\* request was answered by a 429, its second fetch made none, and it has returned
\* the global table
C27_Witness ==
  \E p \in Procs :
    /\ started = 1
    /\ proc[p].pc = "resolved"
    /\ proc[p].cls = "birds"
    /\ proc[p].lat = 0
    /\ proc[p].radius = 200
    /\ proc[p].reqs = 0
    /\ proc[p].attempt = 0
    /\ gbifCircuit.open
    /\ gbifCircuit.consecutiveFailures = 1
    /\ gbifCircuit.lastOpenedReason = "429 rate limit"
    /\ IsGlobalTier(proc[p].ret, "birds")

\* C22: sanitizeDisplayName, applied to a value of its own, returns that value.
C22_SanitizeIdempotent == [][probe.passes >= 1 => probe'.text = probe.text]_vars

\* C28: two coordinates of the same Ecoregion have the same regional tier, and a
\* coordinate whose Ecoregion is 'Unknown' has an empty one.
C28_RegionalTierFollowsEcoregion ==
  probe.ecoregions # <<>>
    => /\ probe.ecoregions[1].name = probe.ecoregions[2].name
            => probe.tables[1] = probe.tables[2]
       /\ probe.ecoregions[1].name = "Unknown" => probe.tables[1] = <<>>

\* C25: a selection from the entry of the cluster stamps the candidate it returns
\* with the time of the selection and changes nothing else in the cache.
C25_StampsTheChosenOnly ==
  [][\A p \in Procs : \A i \in 1..Len(cache) :
       SelectsFrom(p, i)
         => \E k \in 1..Len(cache[i][2].species) :
              /\ proc'[p].result = Formatted(cache[i][2].species[k], proc[p].cls)
              /\ cache' = [cache EXCEPT ![i][2].species[k].lastUsed = now]]_vars

\* the classes of the registry that a hint names: by the plural, the singular or the
\* display name, in any letter case
NamedBy(a) ==
  {taxonomicClasses[i].name : i \in {k \in 1..Len(taxonomicClasses) :
     toLowerCase(a) \in {toLowerCase(taxonomicClasses[k].name),
                         singularize(taxonomicClasses[k].name),
                         toLowerCase(taxonomicClasses[k].displayName)}}}

\* a call of selectSpecies with hint a resolves a class the hint names, or any class
\* of the registry when the hint names none
HintChoosesClass ==
  \A p \in Procs, a \in ClassHints, i \in AllIndices :
    StartSelect(p, 0, -160000, a, i) =>
      /\ proc'[p].cls \in ClassNames
      /\ NamedBy(a) # {} => NamedBy(a) = {proc'[p].cls}

\* a call of selectSpecies in progress keeps the class it resolves
KeepsClass ==
  \A p \in Procs :
    proc[p].op = "select" /\ proc'[p].op = "select" => proc'[p].cls = proc[p].cls

\* C24: when the hint names a class of the registry (plural, singular or
\* display name, any letter case) selectSpecies resolves that class only and the type
\* of the species it returns is the singular of that class; without a hint, or with a
\* hint that names none, the class resolved is one of the five of the registry
C24_HintSelectsClass ==
  [][/\ HintChoosesClass
     /\ KeepsClass
     /\ \A p \in Procs :
          proc[p].op = "select" /\ proc[p].pc # "done" /\ proc'[p].pc = "done"
            => proc'[p].result.type = singularize(proc[p].cls)]_vars

\* a call of selectSpecies that resolved the amphibians has returned an amphibian
C24_Witness ==
  \E p \in Procs :
    /\ proc[p].op = "select"
    /\ proc[p].pc = "done"
    /\ proc[p].cls = "amphibians"
    /\ proc[p].result.type = "amphibian"

\* the names of the candidates of a list
NamesOf(list) == [i \in 1..Len(list) |-> list[i].name]

\* what a 50 km search for className returns when the upstream answers with the eight
\* species
EightSpecies(className) == ParseTable[<<4, className, 50, <<>>>>].species

\* C26: when selectSpecies misses the cache and the 50 km search returns 8 distinct
\* species, the entry written for the cluster holds exactly those 8 candidates with
\* seededByGBIF = true, and the species returned is one of the 8
C26_EightSpeciesAreCachedAsTheyCame ==
  [][\A p \in Procs :
       upstream = "plentiful" /\ proc[p].op = "select" =>
         /\ cache' # cache =>
              LET entry == getCachedEntry(cache', proc[p].lat, proc[p].lon, proc[p].cls)[1]
              IN /\ Len(EightSpecies(proc[p].cls)) = 8
                 /\ NamesOf(entry.species) = NamesOf(EightSpecies(proc[p].cls))
                 /\ entry.seededByGBIF
         /\ proc[p].pc # "done" /\ proc'[p].pc = "done" =>
              proc'[p].result.name \in Range(NamesOf(EightSpecies(proc[p].cls)))]_vars

\* a binomial 'Genus species': two words of letters, the first one capitalized, the
\* second one in lower case
WellFormedBinomial(name) ==
  LET parts == split(name)
  IN /\ Len(parts) = 2
     /\ Len(parts[1]) >= 1
     /\ Len(parts[2]) >= 1
     /\ Head(parts[1]) \in UpperSet
     /\ \A i \in 2..Len(parts[1]) : Ch(parts[1], i) \in LowerSet
     /\ \A i \in 1..Len(parts[2]) : Ch(parts[2], i) \in LowerSet

\* a name that can be shown: not empty, without a digit, and a valid common name or a
\* well-formed binomial
ProperName(name) ==
  /\ name # ""
  /\ \A i \in 1..Len(name) : ~IsDigit(Ch(name, i))
  /\ isValidCommonName(name) \/ WellFormedBinomial(name)

\* C23: every candidate name stored in a cache entry and every name returned by
\* selectSpecies is non-empty, contains no digit and is not a placeholder token: it
\* passes isValidCommonName or is a well-formed 'Genus species' binomial, whatever the
\* records of the upstream hold
C23_NamesAreProper ==
  /\ \A i \in 1..Len(cache) :
       \A k \in 1..Len(cache[i][2].species) : ProperName(cache[i][2].species[k].name)
  /\ \A p \in Procs :
       proc[p].op = "select" /\ proc[p].pc = "done" => ProperName(proc[p].result.name)

\* C21: in every interleaving of concurrent calls of selectSpecies for one cluster and
\* class, a lastUsed stamp that a completed selection has written is not lost while
\* the entry is in the cache: a concurrent resolution that also missed the cache
\* cannot make the species eligible again
C21_StampsSurviveConcurrentCalls ==
  [][\A i \in 1..Len(cache) :
       \A k \in 1..Len(cache[i][2].species) :
         LET used == cache[i][2].species[k]
             j == MapIndex(cache', cache[i][1])
         IN used.lastUsed > 0 /\ j > 0 =>
              \E n \in 1..Len(cache'[j][2].species) :
                /\ cache'[j][2].species[n].name = used.name
                /\ cache'[j][2].species[n].lastUsed >= used.lastUsed]_vars

\* C31: a response is classified as a 429 first, then as a page or non-JSON content,
\* then by its status, then by the parsing of its body: a 429 opens the breaker
\* whatever its body is, and a 5xx response whose body is an HTML page or whose
\* content type is not application/json ends the call with the empty list at once,
\* without a retry, and leaves consecutiveFailures and the breaker as they were
C31_ServerErrorPageIsMalformed ==
  [][\A p \in Procs, r \in Responses, jitter \in Jitters :
       HandleResponse(p, r, jitter) =>
         /\ r.status = 429 =>
              /\ gbifCircuit'.open
              /\ lastGBIFError' = <<[status |-> 429, message |-> "GBIF rate limited"]>>
         /\ r.status >= 500 /\ (r.body = "html" \/ ~r.json) =>
              /\ proc'[p].pc = "fetched"
              /\ proc'[p].fres = <<>>
              /\ proc'[p].reqs = proc[p].reqs
              /\ gbifCircuit' = gbifCircuit
              /\ lastGBIFError' =
                   <<[status |-> r.status, message |-> "Unexpected content from GBIF"]>>]_vars

\* a call has ended at its second attempt with a 5xx page, after one retried 5xx,
\* and the breaker is closed
C31_Witness ==
  \E p \in Procs :
    /\ proc[p].pc = "fetched"
    /\ proc[p].attempt = 2
    /\ proc[p].fres = <<>>
    /\ lastGBIFError = <<[status |-> 503, message |-> "Unexpected content from GBIF"]>>
    /\ ~gbifCircuit.open
    /\ gbifCircuit.consecutiveFailures = 1

\* the step in which the cascade of p resumes after the fetch within 200 km and
\* returns
ExpandedTierReturns(p) ==
  /\ proc[p].op \in {"gsfc", "select"}
  /\ proc[p].pc = "fetched"
  /\ proc[p].radius = 200
  /\ proc'[p].pc = "resolved"

\* the expanded tier's result, then the regional table, then the global table when
\* the two together are fewer than count
TiersAfterExpanded(q) ==
  LET regional == RegionalTable[<<<<q.lat, q.lon>>, q.cls>>]
  IN q.fres \o regional
       \o (IF Len(q.fres) + Len(regional) < q.count THEN GlobalTable[q.cls] ELSE <<>>)

\* the call of p has returned list and cached it, and the list holds no candidate of
\* the fetch within 50 km
ReturnsAndCaches(p, list) ==
  /\ proc'[p].ret = list
  /\ getCachedEntry(cache', proc[p].lat, proc[p].lon, proc[p].cls)[1].species
       = Normalized(list, proc[p].cls)
  /\ \A i \in 1..Len(proc'[p].ret) : proc'[p].ret[i].source # "GBIF-50km"

\* C32 as stated: when the expanded tier has run, the candidates of the narrow tier
\* are discarded, and the list that the resolution returns and caches is the expanded
\* tier's result followed by the regional table, followed by the global table when
\* the count is still below the count asked for
C32_ExpandedThenRegionalThenGlobal ==
  [][\A p \in Procs :
       ExpandedTierReturns(p) => ReturnsAndCaches(p, TiersAfterExpanded(proc[p]))]_vars

\* C32 amended: the candidates of the narrow tier are discarded; the list is the
\* expanded tier's result alone when it has at least the count asked for, and
\* otherwise that result followed by the regional table, followed by the global table
\* when the count is still below the count asked for
C32_ExpandedAloneOrWithTables ==
  [][\A p \in Procs :
       ExpandedTierReturns(p) =>
         ReturnsAndCaches(p, IF Len(proc[p].fres) >= proc[p].count
                             THEN proc[p].fres
                             ELSE TiersAfterExpanded(proc[p]))]_vars

\* a resolution whose narrow tier found nothing has returned the two candidates of
\* the expanded tier and the regional and global tables after them
C32_Witness ==
  \E p \in Procs :
    /\ proc[p].pc = "resolved"
    /\ proc[p].radius = 200
    /\ proc[p].lat = 34046
    /\ Len(proc[p].ret) > 2
    /\ proc[p].ret[1].source = "GBIF-200km"
    /\ \E i \in 1..Len(proc[p].ret) : proc[p].ret[i].source = "global-fallback"

\* the keys of m in the order of insertion
KeySeq(m) == [i \in 1..Len(m) |-> m[i][1]]

\* q without its element d
Without(q, d) == [i \in 1..(Len(q) - 1) |-> IF i < d THEN q[i] ELSE q[i + 1]]

\* b starts with a
IsPrefix(a, b) == Len(a) <= Len(b) /\ SubSeq(b, 1, Len(a)) = a

\* entry d of m is the first of its class in the order of insertion, and none of its
\* class was cached before it
OldestOfClass(m, d) ==
  \A j \in 1..Len(m) :
    m[j][1][3] = m[d][1][3] => d <= j /\ m[d][2].timestamp <= m[j][2].timestamp

C34_OneWritePerMiss ==
  [][\A p \in OneCaller :
       proc[p].op = "gsfc" \/ proc'[p].op = "gsfc" =>
         /\ cache' # cache => proc[p].pc = "fetched" /\ proc'[p].pc = "resolved"
         /\ proc[p].pc = "fetched" /\ proc'[p].pc = "resolved" =>
              cache' = cacheSpecies(cache, proc[p].lat, proc[p].lon, proc[p].cls,
                                    proc'[p].ret, now)
         /\ proc[p].pc = "idle" /\ proc'[p].pc = "resolved" => cache' = cache]_vars

\* a call of getSpeciesForClass that missed the cache and went through the tiers has
\* returned, and the entry of its cluster was written in that step
C34_Witness ==
  \E p \in OneCaller :
    /\ proc[p].op = "gsfc"
    /\ proc[p].pc = "resolved"
    /\ proc[p].radius = 200
    /\ getCachedEntry(cache, proc[p].lat, proc[p].lon, proc[p].cls) # <<>>
    /\ getCachedEntry(cache, proc[p].lat, proc[p].lon, proc[p].cls)[1].timestamp = now

\* the step starts a fetch of p's resolution: the one within 50 km at the start of the
\* resolution, or the one within 200 km after the first has returned
StartsTier(p) ==
  /\ proc'[p].op = "gsfc"
  /\ \/ proc[p].pc = "idle" /\ proc'[p].pc \in {"delay", "fetched"}
     \/ proc[p].pc = "fetched" /\ proc[p].radius = 50 /\ proc'[p].radius = 200

\* a resolution has two tiers at most, a tier has maxRetries attempts at most, and an
\* attempt sends one request of the species search
AtMostSixRequests(p) ==
  /\ IssueRequest(p) => proc[p].attempt \in 1..maxRetries /\ proc[p].radius \in {50, 200}
  /\ proc[p].op = "gsfc" /\ proc'[p].op = "gsfc" =>
       /\ proc'[p].radius # proc[p].radius => proc[p].radius = 50 /\ proc'[p].radius = 200
       /\ proc'[p].radius = proc[p].radius =>
            /\ proc'[p].attempt >= proc[p].attempt
            /\ proc'[p].pc = "delay" /\ proc[p].pc # "delay" =>
                 proc'[p].attempt = proc[p].attempt + 1

CitationChars == {"(", ")", ","} \cup Digits

\* C36: extractBinomial returns exactly two tokens, the genus and the species, with
\* no citation punctuation left, 'Lithobates catesbeianus' for
\* 'Lithobates catesbeianus, (Shaw, 1802)', and '' when it returns no two tokens.
C36_BinomialHasNoCitation ==
  probe.extracted =>
    /\ probe.raw = BullfrogName => probe.binomial = "Lithobates catesbeianus"
    /\ probe.binomial # "" =>
         /\ Len(filterBoolean(split(probe.binomial))) = 2
         /\ \A i \in 1..Len(probe.binomial) : Ch(probe.binomial, i) \notin CitationChars

\* the rules whose box holds the point
RulesHolding(latitude, longitude) ==
  {i \in 1..Len(EcoregionBoxes) :
     /\ EcoregionBoxes[i][1] <= latitude /\ latitude <= EcoregionBoxes[i][2]
     /\ EcoregionBoxes[i][3] <= longitude /\ longitude <= EcoregionBoxes[i][4]}

\* C37: every call of getEcoregionFromCoordinates returns a region, the same one for
\* the same coordinates, and changes nothing of the service; the region is the one of
\* the first rule in the order of declaration whose box holds the point, also where
\* boxes overlap, and the name 'Unknown' with the code '00' when no box holds it.
C37_FirstRuleInDeclarationOrder ==
  [][Len(probe'.regions) > Len(probe.regions) =>
       LET k == Len(probe'.regions)
           holding == RulesHolding(probe.latitude, probe.longitude)
       IN  /\ probe'.regions[k] = probe'.regions[1]
           /\ holding = {} =>
                probe'.regions[k].name = "Unknown" /\ probe'.regions[k].code = "00"
           /\ \A i \in holding :
                (\A j \in holding : i <= j) =>
                   /\ probe'.regions[k].name = EcoregionBoxes[i][5]
                   /\ probe'.regions[k].code = EcoregionBoxes[i][6]
           /\ UNCHANGED <<now, gbifCircuit, lastGBIFError, cache, proc, started, upstream>>]_vars

\* a point of the boxes of the Sierra Nevada, the Foothills, the Valley and California
\* was located twice
C37_Witness ==
  /\ probe.latitude = 36000
  /\ probe.longitude = -120000
  /\ Cardinality(RulesHolding(probe.latitude, probe.longitude)) = 4
  /\ Len(probe.regions) = 2
  /\ probe.regions[2].name = "Sierra Nevada"

\* x and y, in thousandths, are nearest to the same hundredth, a half going up
SameHundredth(x, y) ==
  \E h \in ((x \div 10) - 1)..((x \div 10) + 1) :
    /\ 10 * h - 5 <= x /\ x < 10 * h + 5
    /\ 10 * h - 5 <= y /\ y < 10 * h + 5

\* C38: after cacheSpecies(lat, lon, class, list), getCachedEntry returns the entry
\* that was written for every coordinate that rounds to the same hundredths and the
\* same class, and for another class or another cluster it returns what it returned
\* before, nothing of what was written.
C38_KeysClusterByHundredths ==
  [][\A w \in WritePlaces, cls \in RequestClasses, r \in ReadPlaces, cls2 \in RequestClasses :
       \A list \in ClusterLists(cls) :
         probe'.place = r /\ probe'.cls = cls2 /\ CacheThenGet(w, cls, list, r, cls2) =>
           IF SameHundredth(w[1], r[1]) /\ SameHundredth(w[2], r[2]) /\ cls = cls2
           THEN probe'.entry = <<NewEntry(Normalized(list, cls), w[1], w[2], now)>>
           ELSE probe'.entry = getCachedEntry(cache, r[1], r[2], cls2)]_vars

\* the cache holds the birds of two clusters, and the read at latitude 0.004 and
\* longitude -159.996 found the entry written at latitude -0.005 and longitude -160.005
C38_Witness ==
  /\ probe # <<>>
  /\ probe.place = <<4, -159996>>
  /\ probe.cls = "birds"
  /\ probe.entry # <<>>
  /\ probe.entry[1].location = <<-5, -160005>>
  /\ Len(cache) = 2
  /\ \A i \in 1..Len(cache) : cache[i][1][3] = "birds"

====
